---- MODULE Spec2Model ----
(***************************************************************************)
(* A model of the dinory-ai story service: the scene endpoints of          *)
(* app/api/endpoints/story_generation.py, the scene generation of          *)
(* app/services/llm/openai_service.py and the routes of main.py.           *)
(*                                                                         *)
(* Conventions.  Python None and an absent dictionary key are the string   *)
(* None.  An exception leaving a function is the value RAISED.  Korean     *)
(* text is written in Revised Romanization, one string per syllable.  The  *)
(* five ability types are yonggi (courage), gonggam (empathy),             *)
(* changuiseong (creativity), chaegimgam (responsibility) and ujeong       *)
(* (friendship).  A scene number that is 0 stands for "0 or absent":       *)
(* the code reads scene numbers of payloads only through their truth       *)
(* value (x.get("sceneNumber") or ...).                                    *)
(***************************************************************************)
EXTENDS Integers, Sequences, FiniteSets, TLC

VARIABLES
    OpenAIService,           \* story_generation.py: the imported class, or None
    CHARACTER_DESCRIPTIONS,  \* story_generation.py: storyId -> descriptor
    lastReq,                 \* the request in hand, NoRequest between requests
    lastResp,                \* its response, until the caller has taken it
    lastServed,              \* the scene the endpoint served last: its story and
                             \* number, and for a scene 1 the descriptor that the
                             \* collaborator's reply to that request holds
    lastClassified,          \* the last keyword-fallback classification of one of
                             \* the RememberedTexts: the text and the result
    USE_RAG,                 \* chat.py: the chat service is ChatbotServiceWithRAG
    conversation_history,    \* chat service: session_id -> list of entries
    story_context,           \* chat service: session_id -> story context
    calls,                   \* the chat calls in flight, each at an await
    begun,                   \* the number of chat calls begun
    pending,                 \* session_id -> the user messages appended since
                             \* the history of the session was last cleared
    restarted,               \* the process has been restarted
    lastStep                 \* the step of the chat service taken last

storyVars == <<OpenAIService, CHARACTER_DESCRIPTIONS, lastReq, lastResp, lastServed,
               lastClassified>>

chatVars == <<USE_RAG, conversation_history, story_context, calls, begun, pending,
              restarted, lastStep>>

vars == <<storyVars, chatVars>>

None == "None"
\* What a function that raised returns; a function that returned has raised = FALSE.
RAISED == [raised |-> TRUE]

MAX_SCENE == 8

ABILITIES == {"yonggi", "gonggam", "changuiseong", "chaegimgam", "ujeong"}

(***************************************************************************)
(* The inputs.                                                             *)
(***************************************************************************)
StoryIds == {"s1", "s2"}
\* _alias_generate_next_scene: req.storyId or "dummy"
StoreKeys == StoryIds \cup {"dummy"}
Descriptors == {"d1", "d2"}
SeedTitle == "seed title"
FreshTitle == "fresh title"
SceneInputs == (0 - 1)..(MAX_SCENE + 1)

PrevChoice(n, a) == [sceneNumber |-> n, choiceText |-> "chosen", abilityType |-> a]

\* previousChoices of a request: the choices made so far, oldest first; the
\* third list holds a choice without an abilityType key.
PreviousChoiceLists ==
    { <<>>,
      <<PrevChoice(1, "yonggi")>>,
      <<PrevChoice(1, None)>>,
      <<PrevChoice(1, "gonggam"), PrevChoice(2, "chaegimgam")>> }

(***************************************************************************)
(* Texts of analyze_custom_choice requests.  A text is the sequence of its *)
(* characters, a Hangul syllable being one character.                      *)
(***************************************************************************)
\* "dongsaengeul ttaeryeojulgeoya": I will hit my little brother
ThreatToSibling == <<"dong", "saeng", "-eul", " ", "ttae", "ryeo", "jul", "geo", "-ya">>
\* "museowodo dojeonhaebolge": I am scared, but I will try
ScaredButTrying == <<"mu", "seo", "-wo", "do", " ", "do", "jeon", "hae", "bol", "ge">>
\* "jibe gallae": I want to go home
GoHome == <<"jib", "-e", " ", "gal", "rae">>
Brave == <<"B", "r", "a", "v", "e">>

Sentences == { <<>>, ThreatToSibling, ScaredButTrying, GoHome, Brave }

\* The texts whose keyword-fallback classification is remembered.
RememberedTexts == { ThreatToSibling, ScaredButTrying }

Choice(a, pts, score) == [abilityType |-> a, abilityPoints |-> pts, abilityScore |-> score]

Text(template, ability, ending) == [template |-> template, ability |-> ability, ending |-> ending]

NoText == Text("none", None, FALSE)

NoScene == [sceneNumber |-> 0, text |-> NoText, choices |-> <<>>]

(***************************************************************************)
(* The generation collaborator as one request meets it.  kind is NoKey     *)
(* (OPENAI_API_KEY unset: client is None), Raises (the completion call     *)
(* raises: error, timeout), NotJson (the reply is not JSON) or Json (the   *)
(* reply parses to the object reply).  A reply is what json.loads          *)
(* returns: sceneNumber, content ("text", None for null, "absent"),        *)
(* choices and isEnding ("absent", "true", "false") are the keys of its    *)
(* scene; storyTitle and characterDescription are top-level keys.          *)
(***************************************************************************)
ThreeChoices == <<Choice("yonggi", 0, 10), Choice("gonggam", 0, 12), Choice("ujeong", 0, 15)>>

\* The reply {}: every key is absent.
EmptyReply == [sceneNumber |-> 0, content |-> "absent", choices |-> <<>>,
               isEnding |-> "absent", storyTitle |-> None, characterDescription |-> None]

\* The top-level storyTitle and characterDescription of a reply.
TitleAndDescriptor ==
    { <<None, None>>, <<SeedTitle, "d1">>, <<FreshTitle, None>>, <<FreshTitle, "d2">> }

\* The replies with a scene of number n that has all its keys.
SchemaValidReplies(n) ==
    { [sceneNumber |-> n, content |-> "text", choices |-> c,
       isEnding |-> e, storyTitle |-> td[1], characterDescription |-> td[2]] :
         c \in {<<>>, ThreeChoices}, e \in {"absent", "true", "false"},
         td \in TitleAndDescriptor }

\* What a collaborator asked for scene n may answer: a schema-valid reply,
\* {} (the reply lacks its keys), or a scene with "content": null.
Replies(n) ==
    (IF n # 0 THEN SchemaValidReplies(n) ELSE {}) \cup
    { EmptyReply,
      [sceneNumber |-> IF n # 0 THEN n ELSE 1, content |-> None, choices |-> ThreeChoices,
       isEnding |-> "absent", storyTitle |-> FreshTitle, characterDescription |-> "d1"] }

Collaborators(n) ==
    { [kind |-> k, reply |-> EmptyReply] : k \in {"NoKey", "Raises", "NotJson"} } \cup
    { [kind |-> "Json", reply |-> r] : r \in Replies(n) }

(***************************************************************************)
(* openai_service.py                                                       *)
(***************************************************************************)
\* OpenAIService._get_dummy_single_scene
_get_dummy_single_scene(story_title, scene_number) ==
    [ raised |-> FALSE,
      scene |-> [ sceneNumber |-> scene_number,
                  text |-> Text("dummy", None, FALSE),
                  choices |-> << Choice("yonggi", 0, 10), Choice("chaegimgam", 0, 10),
                                 Choice("gonggam", 0, 10) >> ],
      isEnding |-> scene_number >= MAX_SCENE,
      storyTitle |-> None,
      characterDescription |-> None,
      source |-> "dummy" ]

\* OpenAIService.generate_next_scene from json.loads on: result is the
\* parsed reply.  scene = result.get('scene', result), replaced by result
\* when it is empty or has no sceneNumber: either way the scene's keys are
\* the ones the reply record holds.
SceneOfReply(result, scene_number) ==
    [ raised |-> FALSE,
      scene |-> [ sceneNumber |-> result.sceneNumber,
                  text |-> IF result.content = "text" THEN Text("generated", None, FALSE)
                           ELSE NoText,
                  choices |-> result.choices ],
      \* scene.get("isEnding", scene_number >= 8)
      isEnding |-> IF result.isEnding = "absent" THEN scene_number >= MAX_SCENE
                   ELSE result.isEnding = "true",
      \* if scene_number == 1: storyTitle and characterDescription are copied
      storyTitle |-> IF scene_number = 1 THEN result.storyTitle ELSE None,
      characterDescription |->
          IF scene_number = 1 THEN result.characterDescription ELSE None,
      source |-> "generated" ]

\* OpenAIService.generate_next_scene
ServiceGenerateNextScene(collab, story_title, scene_number) ==
    IF collab.kind = "NoKey"
    THEN \* if not self.client
         _get_dummy_single_scene(story_title, scene_number)
    ELSE IF collab.kind \in {"Raises", "NotJson"}
    THEN \* except Exception: the call or json.loads raised
         _get_dummy_single_scene(story_title, scene_number)
    ELSE IF collab.reply.content = None
    THEN \* except Exception: len(scene.get("content", "")) on "content": null
         _get_dummy_single_scene(story_title, scene_number)
    ELSE SceneOfReply(collab.reply, scene_number)

\* OpenAIService.generate_next_scene_async: concerns is a required
\* parameter; a call that does not pass it raises TypeError.
generate_next_scene_async(concerns_passed, collab, story_title, scene_number) ==
    IF ~concerns_passed THEN RAISED
    ELSE ServiceGenerateNextScene(collab, story_title, scene_number)

(***************************************************************************)
(* story_generation.py: the scene endpoint                                 *)
(***************************************************************************)
\* x or y or 0 on two integers
OrInt(x, y) == IF x # 0 THEN x ELSE y

\* _scene_from_payload
_scene_from_payload(payload) ==
    [ \* payload.get("sceneNumber") or ... or 1
      sceneNumber |-> IF payload.sceneNumber # 0 THEN payload.sceneNumber ELSE 1,
      text |-> payload.text,
      choices |-> [ i \in DOMAIN payload.choices |->
                      LET ch == payload.choices[i]
                      IN  Choice(ch.abilityType,
                                 OrInt(ch.abilityPoints, ch.abilityScore),
                                 OrInt(ch.abilityScore, ch.abilityPoints)) ] ]

\* _fallback_next_scene without its "if previous_choices:" guard:
\* previous_choices[-1] raises IndexError on an empty list.
_fallback_next_scene_unguarded(scene_number, story_title, previous_choices) ==
    IF previous_choices = <<>> THEN RAISED
    ELSE [ raised |-> FALSE,
           scene |-> [ sceneNumber |-> scene_number,
                       text |-> Text("continues", None, scene_number >= MAX_SCENE),
                       choices |-> IF scene_number >= MAX_SCENE THEN <<>>
                                   ELSE << Choice("yonggi", 2, 0), Choice("ujeong", 2, 0),
                                           Choice("changuiseong", 2, 0) >> ],
           isEnding |-> scene_number >= MAX_SCENE ]

\* _fallback_next_scene ending one scene early: is_ending = scene_number >= 7.
_fallback_next_scene_early_ending(scene_number, story_title, previous_choices) ==
    LET is_ending == scene_number >= MAX_SCENE - 1
    IN  [ raised |-> FALSE,
          scene |-> [ sceneNumber |-> scene_number,
                      text |-> Text("starts", None, is_ending),
                      choices |-> IF is_ending THEN <<>>
                                  ELSE << Choice("yonggi", 2, 0), Choice("ujeong", 2, 0),
                                          Choice("changuiseong", 2, 0) >> ],
          isEnding |-> is_ending ]

\* _fallback_next_scene
_fallback_next_scene(scene_number, story_title, previous_choices) ==
    LET is_ending == scene_number >= MAX_SCENE
        last_choice == previous_choices[Len(previous_choices)]
        \* last_choice.get("abilityType", "neungnyeok")
        ability == IF last_choice.abilityType = None THEN "neungnyeok"
                   ELSE last_choice.abilityType
    IN  [ raised |-> FALSE,
          scene |->
            [ sceneNumber |-> scene_number,
              text |-> IF previous_choices # <<>>
                       THEN Text("continues", ability, is_ending)
                       ELSE Text("starts", None, is_ending),
              choices |-> IF is_ending THEN <<>>
                          ELSE << Choice("yonggi", 2, 0), Choice("ujeong", 2, 0),
                                  Choice("changuiseong", 2, 0) >> ],
          isEnding |-> is_ending ]

\* The keyword arguments of the call of generate_next_scene_async in
\* generate_next_scene: story_id, story_title, story_description, emotion,
\* interests, scene_number, previous_choices, story_context and
\* character_description; concerns is not among them.
EndpointPassesConcerns == FALSE

Response(kind, status, scene, isEnding, storyTitle, characterDescription, source, given) ==
    [ kind |-> kind, status |-> status, scene |-> scene, isEnding |-> isEnding,
      storyTitle |-> storyTitle, characterDescription |-> characterDescription,
      source |-> source, given |-> given ]

NoResponse == Response("none", 0, NoScene, FALSE, None, None, "none", None)

\* CHARACTER_DESCRIPTIONS.get(story_id)
Get(store, story_id) == IF story_id \in DOMAIN store THEN store[story_id] ELSE None

\* The except branch and the else branch of generate_next_scene: the
\* fallback scene, or status 500 (the outer except) when building it raises.
\* given is the character_description the collaborator call was handed.
FallbackResponse(req, given) ==
    LET result == _fallback_next_scene(req.sceneNumber,
                                       IF req.storyTitle # None THEN req.storyTitle
                                       ELSE "donghwa",
                                       req.previousChoices)
    IN  IF result.raised
        THEN Response("error", 500, NoScene, FALSE, None, None, "none", given)
        ELSE Response("scene", 200, _scene_from_payload(result.scene),
                      result.isEnding, None, None, "fallback", given)

\* generate_next_scene (the endpoint) on a NextSceneRequest: the response
\* and the store it leaves.  The response holds scene and isEnding, and
\* storyTitle when the result has one; it has no characterDescription key.
generate_next_scene(req, store, imported) ==
    IF ~imported
    THEN [resp |-> FallbackResponse(req, None), store |-> store]
    ELSE
      LET character_description == Get(store, req.storyId)
          result == generate_next_scene_async(
                        EndpointPassesConcerns, req.collab,
                        IF req.storyTitle # None THEN req.storyTitle ELSE req.storyId,
                        req.sceneNumber)
      IN  IF result.raised
          THEN [resp |-> FallbackResponse(req, character_description), store |-> store]
          ELSE [ resp |-> Response("scene", 200, _scene_from_payload(result.scene),
                                   result.isEnding, result.storyTitle, None,
                                   result.source, character_description),
                 \* if req.sceneNumber == 1 and result.get("characterDescription")
                 store |-> IF req.sceneNumber = 1 /\ result.characterDescription # None
                           THEN [store EXCEPT ![req.storyId] = result.characterDescription]
                           ELSE store ]

\* create_image_prompt: the descriptor the prompt is built with, on the
\* collaborator path and in the fallback prompt alike.
ImagePromptDescriptor(req, store) ==
    IF req.characterDescription # None THEN req.characterDescription
    ELSE IF req.storyId # None THEN Get(store, req.storyId)
    ELSE None

\* create_image_prompt
create_image_prompt(req, store, imported) ==
    LET character_description == ImagePromptDescriptor(req, store)
    IN  IF imported /\ req.collab.kind = "Json"
        THEN Response("imagePrompt", 200, NoScene, FALSE, None, None, "generated",
                      character_description)
        ELSE \* OpenAIService is None, llm.client is None (AttributeError), the
             \* call raises or the reply is not JSON: the fallback prompt
             Response("imagePrompt", 200, NoScene, FALSE, None, None, "fallback",
                      character_description)

(***************************************************************************)
(* The requests.  childId is left out: the endpoint only logs it.          *)
(***************************************************************************)
Request(op, storyId, sceneNumber, storyTitle, previousChoices, characterDescription, collab) ==
    [ op |-> op, storyId |-> storyId, sceneNumber |-> sceneNumber,
      storyTitle |-> storyTitle, previousChoices |-> previousChoices,
      characterDescription |-> characterDescription, collab |-> collab ]

NoCollab == [kind |-> "none", reply |-> EmptyReply]

NoRequest == Request("none", None, 0, None, <<>>, None, NoCollab)

NoneServed == [story |-> None, number |-> 0, descriptor |-> None]

NoneClassified == [text |-> <<>>, result |-> NoResponse]

Idle == lastReq = NoRequest

(***************************************************************************)
(* The chat service (chatbot_service_with_rag.py, chatbot_service.py) as   *)
(* chat.py makes it: one instance for all sessions, with                   *)
(* conversation_history and story_context empty.  A session that is not a  *)
(* key of a dictionary has present FALSE there.  The content of an entry   *)
(* is the number of its text.  The five totals of a story context are in   *)
(* the order courage, empathy, creativity, responsibility, friendship;     *)
(* nulls says that one of them is null.                                    *)
(***************************************************************************)
Sessions == {1, 2}

Calls == {1, 2}

History(entries) == [present |-> TRUE, entries |-> entries]

NoHistory == [present |-> FALSE, entries |-> <<>>]

Abilities(totals, nulls) == [totals |-> totals, nulls |-> nulls]

StoryContext(story_id, abilities, choices) ==
    [present |-> TRUE, story_id |-> story_id, abilities |-> abilities, choices |-> choices]

NoStoryContext ==
    [ present |-> FALSE, story_id |-> None,
      abilities |-> Abilities(<<0, 0, 0, 0, 0>>, FALSE), choices |-> <<>> ]

\* A call of generate_response or generate_first_message_from_story that
\* waits at pc, with the number of its message and the story of its request.
Call(op, pc, session, message, story) ==
    [op |-> op, pc |-> pc, session |-> session, message |-> message, story |-> story]

NoCall == Call("none", "idle", 0, 0, NoStoryContext)

\* A step of the chat service: the operation, its session, the number of
\* the message of its call, what the collaborator or the store answered in
\* it (kind, messages, story), and what the call returned if it returned in
\* this step.
Step(op, session, message, kind, messages, story, returned) ==
    [ op |-> op, session |-> session, message |-> message, kind |-> kind,
      messages |-> messages, story |-> story, returned |-> returned ]

NoStep == Step("none", 0, 0, "none", <<>>, NoStoryContext, "none")

ChatStart ==
    /\ conversation_history = [s \in Sessions |-> NoHistory]
    /\ story_context = [s \in Sessions |-> NoStoryContext]
    /\ calls = [c \in Calls |-> NoCall]
    /\ begun = 0
    /\ pending = [s \in Sessions |-> {}]
    /\ restarted = FALSE
    /\ lastStep = NoStep

Init ==
    /\ OpenAIService \in {"class", None}
    /\ CHARACTER_DESCRIPTIONS = [s \in StoreKeys |-> None]
    /\ lastReq = NoRequest
    /\ lastResp = NoResponse
    /\ lastServed = NoneServed
    /\ lastClassified = NoneClassified
    /\ USE_RAG = FALSE
    /\ ChatStart

\* POST /ai/generate-next-scene with a body NextSceneRequest accepts:
\* sceneNumber is any int.
GenerateNextScene ==
    /\ Idle
    /\ \E storyId \in StoryIds, n \in SceneInputs, title \in {None, SeedTitle},
          prev \in PreviousChoiceLists :
         \E collab \in Collaborators(n) :
           LET req == Request("generate_next_scene", storyId, n, title, prev, None,
                              collab)
               out == generate_next_scene(req, CHARACTER_DESCRIPTIONS,
                                          OpenAIService # None)
           IN  /\ lastReq' = req
               /\ lastResp' = out.resp
               /\ CHARACTER_DESCRIPTIONS' = out.store
    /\ UNCHANGED <<OpenAIService, lastServed, lastClassified, chatVars>>

\* POST /ai/generate-next-scene with a body that has no sceneNumber:
\* NextSceneRequest (sceneNumber: int, required) refuses it and
\* validation_handler answers with status 422.
RejectNextScene ==
    /\ Idle
    /\ \E storyId \in StoryIds :
         /\ lastReq' = Request("generate_next_scene_invalid", storyId, 0, None, <<>>,
                               None, NoCollab)
         /\ lastResp' = Response("rejected", 422, NoScene, FALSE, None, None, "none",
                                 None)
    /\ UNCHANGED <<OpenAIService, CHARACTER_DESCRIPTIONS, lastServed, lastClassified, chatVars>>

\* _alias_generate_next_scene of main.py: every field of _NextSceneBody is
\* optional; the request it builds has storyId or "dummy", sceneNumber or 1
\* and no previous choices.  (The router's route of the same path is
\* registered first.)
AliasGenerateNextScene ==
    /\ Idle
    /\ \E storyId \in StoryIds \cup {None}, sceneGiven \in BOOLEAN, n \in SceneInputs :
         \E collab \in Collaborators(n) :
           LET real_req == Request("_alias_generate_next_scene",
                                   IF storyId # None THEN storyId ELSE "dummy",
                                   IF sceneGiven /\ n # 0 THEN n ELSE 1,
                                   None, <<>>, None, collab)
               out == generate_next_scene(real_req, CHARACTER_DESCRIPTIONS,
                                          OpenAIService # None)
           IN  /\ collab.kind \in {"NoKey", "Raises"}
               /\ lastReq' = [real_req EXCEPT !.sceneNumber = IF sceneGiven THEN n ELSE 0]
               /\ lastResp' = out.resp
               /\ CHARACTER_DESCRIPTIONS' = out.store
    /\ UNCHANGED <<OpenAIService, lastServed, lastClassified, chatVars>>

\* A call of OpenAIService.generate_next_scene with all its parameters.
ServiceCall ==
    /\ Idle
    /\ OpenAIService # None
    /\ \E n \in SceneInputs, title \in {SeedTitle}, d \in {None} \cup Descriptors :
         \E collab \in Collaborators(n) :
           LET result == ServiceGenerateNextScene(collab, title, n)
           IN  /\ lastReq' = Request("OpenAIService.generate_next_scene", None, n,
                                     title, <<>>, d, collab)
               /\ lastResp' = Response("payload", 200, result.scene, result.isEnding,
                                       result.storyTitle, result.characterDescription,
                                       result.source, d)
    /\ UNCHANGED <<OpenAIService, CHARACTER_DESCRIPTIONS, lastServed, lastClassified, chatVars>>

\* POST /ai/create-image-prompt
CreateImagePrompt ==
    /\ Idle
    /\ \E storyId \in StoryIds \cup {None}, d \in {None} \cup Descriptors,
          kind \in {"NoKey", "Raises", "NotJson", "Json"} :
         LET req == Request("create_image_prompt", storyId, 0, None, <<>>, d,
                            [kind |-> kind, reply |-> EmptyReply])
         IN  /\ lastReq' = req
             /\ lastResp' = create_image_prompt(req, CHARACTER_DESCRIPTIONS,
                                                OpenAIService # None)
    /\ UNCHANGED <<OpenAIService, CHARACTER_DESCRIPTIONS, lastServed, lastClassified, chatVars>>

\* The caller takes the response.
Deliver ==
    /\ ~Idle
    /\ lastServed' =
         IF lastReq.op \in {"generate_next_scene", "_alias_generate_next_scene"}
            /\ lastResp.kind = "scene"
         THEN [ story |-> lastReq.storyId, number |-> lastResp.scene.sceneNumber,
                descriptor |-> IF lastReq.sceneNumber = 1 /\ OpenAIService # None
                                  /\ lastReq.collab.kind = "Json"
                               THEN lastReq.collab.reply.characterDescription
                               ELSE None ]
         ELSE lastServed
    /\ lastClassified' =
         IF /\ lastReq.op = "analyze_custom_choice"
            /\ lastResp.path = "fallback"
            /\ lastReq.text \in RememberedTexts
         THEN [text |-> lastReq.text, result |-> lastResp]
         ELSE lastClassified
    /\ lastReq' = NoRequest
    /\ lastResp' = NoResponse
    /\ UNCHANGED <<OpenAIService, CHARACTER_DESCRIPTIONS, chatVars>>

Next ==
    \/ GenerateNextScene
    \/ RejectNextScene
    \/ AliasGenerateNextScene
    \/ ServiceCall
    \/ CreateImagePrompt
    \/ Deliver

Spec == Init /\ [][Next]_vars

(***************************************************************************)
(* story_generation.py: analyze_custom_choice.  A text is the sequence of  *)
(* its characters, a Hangul syllable being one character; a syllable       *)
(* without an initial consonant is written with a leading "-", so that it  *)
(* differs from the Latin letters.                                         *)
(***************************************************************************)
NEGATIVE_KEYWORDS ==
    << [ level |-> "strong",
         keywords |->
           { <<"jug", "-i">>, <<"jug", "-yeo">>, <<"pae", "beo">>, <<"pae", "ju">>,
             <<"pae", "jug">>, <<"jji", "reu">>, <<"pog", "haeng">>, <<"bu", "swo">>,
             <<"-yog", "hae">>, <<"-yog", "ham">>, <<"_s", "_b">>, <<"_j", "_r">>,
             <<"gae", "sae">>, <<"s", "e", "x">>, <<"jug", "-eo">> } ],
       [ level |-> "medium",
         keywords |->
           { <<"ttae", "ri">>, <<"pae">>, <<"ssa", "-u">>, <<"mil", "chi">>,
             <<"ju", "meog">>, <<"hon", "nae">>, <<"nol", "rim">>, <<"tta", "dol">>,
             <<"bi", "-us">>, <<"byeon", "tae">>, <<"sseu", "re", "gi">>,
             <<"hyeom", "-o">>, <<"jeung", "-o">>, <<"mi", "-wo">> } ],
       [ level |-> "weak",
         keywords |->
           { <<"ba", "bo">>, <<"meong", "cheong">>, <<"mos", "saeng">>,
             <<"ttung", "ttung">>, <<"-i", "sang", "hae">>, <<"mu", "sig">>,
             <<"jae", "su", "-eobs">>, <<"silh", "-eo">>, <<"silh", "da">>,
             <<"mi", "-wo", "ha">>, <<"ha", "chanh">>, <<"jeo", "jil">>,
             <<"meu", "heus">> } ] >>

POSITIVE_KEYWORDS ==
    << [ ability |-> "yonggi",
         strong |->
           { <<"do", "jeon">>, <<"-yong", "gam">>, <<"du", "ryeob", "ji", "man">>,
             <<"cheos", "geol", "-eum">>, <<"hae", "bol", "ge">>,
             <<"po", "gi", "ha", "ji">> },
         medium |->
           { <<"-yong", "gi">>, <<"b", "r", "a", "v", "e">>, <<"hon", "ja", "seo">>,
             <<"-ap", "-eu", "ro", " ", "na", "-a">> },
         weak |->
           { <<"si", "do">>, <<"ga", "bol", "ge">>, <<"hae", "bol", "kka">>,
             <<"mu", "seo", "-wo", "do">> } ],
       [ ability |-> "gonggam",
         strong |->
           { <<"-wi", "ro", "hae">>, <<"ma", "-eum", " ", "-al", "-a">>,
             <<"him", "deul", "-eoss", "gess", "da">>, <<"seul", "peoss", "gess", "da">>,
             <<"bae", "ryeo", "hae">> },
         medium |->
           { <<"gong", "gam">>, <<"-i", "hae", "hae">>,
             <<"e", "m", "p", "a", "t", "h", "y">>, <<"do", "-wa", "jul", "ge">> },
         weak |->
           { <<"gwaen", "chanh", "-a">>, <<"him", "nae">>, <<"do", "-wa">> } ],
       [ ability |-> "changuiseong",
         strong |->
           { <<"sae", "ro", "-un", " ", "-a", "-i", "di", "-eo">>, <<"bal", "myeong">>,
             <<"chang", "jo", "hae">>, <<"gi", "bal", "han">> },
         medium |->
           { <<"-a", "-i", "di", "-eo">>, <<"chang", "-ui">>, <<"dog", "chang">>,
             <<"sang", "sang">> },
         weak |->
           { <<"saeng", "gag", "hae", "naess">>, <<"man", "deul", "-eo">> } ],
       [ ability |-> "chaegimgam",
         strong |->
           { <<"-yag", "sog", " ", "ji", "kil", "ge">>, <<"mat", "-eun", " ", "-il">>,
             <<"seu", "seu", "ro", " ", "hae", "gyeol">> },
         medium |->
           { <<"jeong", "ri", "haess">>, <<"jeong", "ri", "hal", "ge">>,
             <<"chaeg", "-im", "gam">>, <<"chaeng", "gyeo">> },
         weak |->
           { <<"seu", "seu", "ro">>, <<"do", "-wa", "jul", "ge">> } ],
       [ ability |-> "ujeong",
         strong |->
           { <<"gat", "-i", " ", "do", "-wa">>, <<"ham", "kke", " ", "hae", "gyeol">>,
             <<"chin", "gu", " ", "ji", "kyeo">>, <<"hyeob", "ryeog", "haess", "-eo">> },
         medium |->
           { <<"chin", "gu">>, <<"f", "r", "i", "e", "n", "d">>, <<"-u", "jeong">>,
             <<"ham", "kke">>, <<"gat", "-i">> },
         weak |->
           { <<"gat", "-a">>, <<"dul", "-i", "seo">> } ] >>

CUSTOM_CHOICE_BONUS == 2
MAX_ABILITY_POINTS == 17

UpperCase ==
    << "A", "B", "C", "D", "E", "F", "G", "H", "I", "J", "K", "L", "M",
       "N", "O", "P", "Q", "R", "S", "T", "U", "V", "W", "X", "Y", "Z" >>
LowerCase ==
    << "a", "b", "c", "d", "e", "f", "g", "h", "i", "j", "k", "l", "m",
       "n", "o", "p", "q", "r", "s", "t", "u", "v", "w", "x", "y", "z" >>

\* str.lower() of one character, and of a text
LowerChar(c) ==
    IF \E i \in DOMAIN UpperCase : UpperCase[i] = c
    THEN LowerCase[CHOOSE i \in DOMAIN UpperCase : UpperCase[i] = c]
    ELSE c

Lower(text) == [i \in DOMAIN text |-> LowerChar(text[i])]

\* k in text
Contains(text, k) ==
    \E i \in 1..(Len(text) - Len(k) + 1) : SubSeq(text, i, i + Len(k) - 1) = k

\* any(k in text for k in keywords)
AnyIn(keywords, text) == \E k \in keywords : Contains(text, k)

\* check_negative: the first level, in the order of NEGATIVE_KEYWORDS, that
\* has a keyword in the text
check_negative(text) ==
    LET hits == { i \in DOMAIN NEGATIVE_KEYWORDS :
                    AnyIn(NEGATIVE_KEYWORDS[i].keywords, text) }
    IN  IF hits = {}
        THEN [is_neg |-> FALSE, level |-> None]
        ELSE [is_neg |-> TRUE,
              level |-> NEGATIVE_KEYWORDS[CHOOSE i \in hits :
                                            \A j \in hits : i <= j].level]

RECURSIVE MatchPositiveFrom(_, _)
\* match_positive, from the i-th ability of POSITIVE_KEYWORDS on
MatchPositiveFrom(text, i) ==
    IF i > Len(POSITIVE_KEYWORDS)
    THEN [ability |-> "chaegimgam", base_pts |-> 10, intensity |-> "fallback"]
    ELSE LET levels == POSITIVE_KEYWORDS[i]
         IN  IF AnyIn(levels.strong, text)
             THEN [ability |-> levels.ability, base_pts |-> 12, intensity |-> "strong"]
             ELSE IF AnyIn(levels.medium, text)
             THEN [ability |-> levels.ability, base_pts |-> 10, intensity |-> "medium"]
             ELSE IF AnyIn(levels.weak, text)
             THEN [ability |-> levels.ability, base_pts |-> 8, intensity |-> "weak"]
             ELSE MatchPositiveFrom(text, i + 1)

match_positive(text) == MatchPositiveFrom(text, 1)

Min(a, b) == IF a <= b THEN a ELSE b

\* The feedback texts of the endpoint.
FallbackRedirect == "respect and care for your friend in your choice"
DefaultNegativeFeedback == "there is a negative expression"
FallbackPraise == "nice choice, the ability grew"
DefaultPraise == "really nice choice, the ability grew"

Classification(isNegative, negativeReason, feedback, abilityType, abilityPoints, path) ==
    [ kind |-> "classification", isNegative |-> isNegative,
      negativeReason |-> negativeReason, feedback |-> feedback,
      abilityType |-> abilityType, abilityPoints |-> abilityPoints, path |-> path ]

\* The keyword fallback without the bonus of a custom choice.
KeywordFallbackWithoutBonus(txt) ==
    LET neg == check_negative(txt)
        pos == match_positive(txt)
    IN  IF neg.is_neg
        THEN Classification(TRUE, neg.level, FallbackRedirect, None, 0, "fallback")
        ELSE Classification(FALSE, None, FallbackPraise, pos.ability, pos.base_pts,
                            "fallback")

\* The keyword fallback keeping count: a text classified before earns one
\* point more.
KeywordFallbackRemembering(txt) ==
    LET neg == check_negative(txt)
        pos == match_positive(txt)
        pts == Min(pos.base_pts + CUSTOM_CHOICE_BONUS, MAX_ABILITY_POINTS)
    IN  IF neg.is_neg
        THEN Classification(TRUE, neg.level, FallbackRedirect, None, 0, "fallback")
        ELSE Classification(FALSE, None, FallbackPraise, pos.ability,
                            IF lastClassified.text = txt THEN pts + 1 ELSE pts,
                            "fallback")

\* analyze_custom_choice after the collaborator has failed
KeywordFallback(txt) ==
    LET neg == check_negative(txt)
        pos == match_positive(txt)
        pts == Min(pos.base_pts + CUSTOM_CHOICE_BONUS, MAX_ABILITY_POINTS)
    IN  IF neg.is_neg
        THEN Classification(TRUE, neg.level, FallbackRedirect, None, 0, "fallback")
        ELSE Classification(FALSE, None, FallbackPraise, pos.ability, pts, "fallback")

(***************************************************************************)
(* The collaborator as analyze_custom_choice meets it: NoKey, Raises and   *)
(* NotJson as above, NotObject (the reply is JSON but not an object) and   *)
(* Json.  Of a reply, isNegative is "absent", "true", "false" or "string"  *)
(* (a non-empty string); negativeReason, feedback and abilityType are      *)
(* "absent", None (null) or a string; abilityPoints is absent, an int, a   *)
(* string or null.                                                         *)
(***************************************************************************)
Points(kind, value) == [kind |-> kind, value |-> value]

ReplyPoints ==
    { Points("absent", 0), Points("str", 0), Points("null", 0) } \cup
    { Points("int", v) : v \in {3, 10, 15, 16} }

ClassifyReplies ==
    [ isNegative : {"absent", "true", "false", "string"},
      negativeReason : {"absent", "reason"},
      feedback : {"absent", "collaborator feedback", "", None},
      abilityType : {"absent", "yonggi", "other"},
      abilityPoints : ReplyPoints ]

EmptyClassifyReply ==
    [ isNegative |-> "absent", negativeReason |-> "absent", feedback |-> "absent",
      abilityType |-> "absent", abilityPoints |-> Points("absent", 0) ]

ClassifyCollaborators ==
    { [kind |-> k, reply |-> EmptyClassifyReply] :
        k \in {"NoKey", "Raises", "NotJson", "NotObject"} } \cup
    { [kind |-> "Json", reply |-> r] : r \in ClassifyReplies }

\* The truth value of result.get("isNegative", False)
Truthy(isNegative) == isNegative \in {"true", "string"}

\* d.get(key, default) for a value that is "absent" when the key is
GetOr(value, default) == IF value = "absent" THEN default ELSE value

\* analyze_custom_choice: imported is FALSE when OpenAIService is None;
\* OpenAIService() then raises and the outer handler takes it.
analyze_custom_choice(text, collab, imported) ==
    LET txt == Lower(text)
        result == collab.reply
    IN  IF ~imported \/ collab.kind # "Json"
        THEN KeywordFallback(txt)
        ELSE IF Truthy(result.isNegative)
        THEN Classification(TRUE, GetOr(result.negativeReason, ""),
                            GetOr(result.feedback, DefaultNegativeFeedback),
                            None, 0, "collaborator")
        ELSE IF result.abilityPoints.kind \in {"str", "null"}
        THEN \* result.get("abilityPoints", 12) + 2 raises TypeError
             KeywordFallback(txt)
        ELSE Classification(FALSE, None, GetOr(result.feedback, DefaultPraise),
                            GetOr(result.abilityType, "chaegimgam"),
                            Min((IF result.abilityPoints.kind = "absent" THEN 12
                                 ELSE result.abilityPoints.value)
                                  + CUSTOM_CHOICE_BONUS, MAX_ABILITY_POINTS),
                            "collaborator")

(***************************************************************************)
(* The texts of the requests: some sentences, every keyword alone, and     *)
(* every two keywords with a space between them.                           *)
(***************************************************************************)
AllKeywords ==
    UNION { NEGATIVE_KEYWORDS[i].keywords : i \in DOMAIN NEGATIVE_KEYWORDS } \cup
    UNION { POSITIVE_KEYWORDS[i].strong \cup POSITIVE_KEYWORDS[i].medium
              \cup POSITIVE_KEYWORDS[i].weak : i \in DOMAIN POSITIVE_KEYWORDS }

Texts ==
    Sentences \cup AllKeywords \cup
    { k1 \o <<" ">> \o k2 : k1 \in AllKeywords, k2 \in AllKeywords }

\* The texts that meet every reply of the collaborator.
RepliedTexts == { ThreatToSibling, ScaredButTrying, GoHome }

ClassifyRequest(text, collab) ==
    [op |-> "analyze_custom_choice", text |-> text, collab |-> collab]

\* POST /ai/analyze-custom-choice with a text of texts
AnalyzeCustomChoiceOf(texts) ==
    /\ Idle
    /\ \E text \in texts, collab \in ClassifyCollaborators :
         /\ collab.kind = "Json" => text \in RepliedTexts
         /\ lastReq' = ClassifyRequest(text, collab)
         /\ lastResp' = analyze_custom_choice(text, collab, OpenAIService # None)
    /\ UNCHANGED <<OpenAIService, CHARACTER_DESCRIPTIONS, lastServed, lastClassified, chatVars>>

AnalyzeCustomChoice == AnalyzeCustomChoiceOf(Texts)

\* The same with one of the sentences.
AnalyzeSentence == AnalyzeCustomChoiceOf(Sentences)

ClassifyNext ==
    \/ AnalyzeCustomChoice
    \/ Deliver

ClassifySpec == Init /\ [][ClassifyNext]_vars

\* Requests of the classifier among requests of the other routes, in any
\* order.
AppNext ==
    \/ AnalyzeSentence
    \/ AliasGenerateNextScene
    \/ RejectNextScene
    \/ CreateImagePrompt
    \/ Deliver

AppSpec == Init /\ [][AppNext]_vars

(***************************************************************************)
(* memory_service.py.  A JSON value that a store returns is a record with  *)
(* its type ("list", "object" or "null") and its items; an item of a list  *)
(* is a record whose isDict tells whether the item is a JSON object.  An   *)
(* absent key of an item is the string "absent", a null value is None.     *)
(***************************************************************************)
JsonList(items) == [type |-> "list", items |-> items]
\* A JSON object of keys: {} when keys is empty.
JsonObject(keys) ==
    [type |-> "object", items |-> [i \in DOMAIN keys |-> [isDict |-> FALSE, key |-> keys[i]]]]
JsonNull == [type |-> "null", items |-> <<>>]

\* bool(value)
IsTruthy(value) == value.type # "null" /\ value.items # <<>>

\* seq[:n]
Take(seq, n) == SubSeq(seq, 1, IF Len(seq) < n THEN Len(seq) ELSE n)

\* The value of the key message of a chat turn: its text and len(text).
Message(id, len) == [id |-> id, len |-> len]
\* The key is absent (conv.get('message', '') is ''), or its value is null.
AbsentMessage == Message("absent", 0)
NullMessage == Message(None, 0)

\* A chat turn of the history.
Conv(message) == [isDict |-> TRUE, message |-> message]
\* An item that is not an object.
BadItem == [isDict |-> FALSE, message |-> AbsentMessage]

\* A story completion: storyTitle and childName are a string, "absent" or
\* None; totals are the five total* fields in the order of the code, each an
\* integer, or None for null.
Story(storyTitle, childName, totals, nullTotal) ==
    [ isDict |-> TRUE, storyTitle |-> storyTitle, childName |-> childName,
      totals |-> totals, nullTotal |-> nullTotal ]
BadStory == [ isDict |-> FALSE, storyTitle |-> "absent", childName |-> "absent",
              totals |-> <<0, 0, 0, 0, 0>>, nullTotal |-> FALSE ]

\* A match of the semantic search, as search_similar_conversations formats it.
Similar(message, response, score) ==
    [message |-> message, response |-> response, score |-> score]

ABILITY_KEYS == <<"yonggi", "gonggam", "changuiseong", "chaegimgam", "ujeong">>

RECURSIVE SelectSeq2(_, _)
\* The indices i of 1..n, in order, whose flag[i] holds.
SelectSeq2(flag, n) ==
    IF n = 0 THEN <<>>
    ELSE IF flag[n] THEN Append(SelectSeq2(flag, n - 1), n)
    ELSE SelectSeq2(flag, n - 1)

\* MemoryService._format_abilities: name+value of the abilities with a value
\* above 0, <<>> standing for the text "no abilities".
_format_abilities(abilities) ==
    LET kept == SelectSeq2([i \in 1..5 |-> abilities[i] > 0], 5)
    IN  [k \in 1..Len(kept) |-> <<ABILITY_KEYS[kept[k]], abilities[kept[k]]>>]

TOPIC_MIN_LEN == 3
TOPIC_MESSAGES == 3
TOPIC_MAX_LEN == 100
SEPARATOR_LEN == 3

RECURSIVE SumLen(_)
SumLen(messages) ==
    IF messages = <<>> THEN 0
    ELSE Head(messages).len + SumLen(Tail(messages))

\* MemoryService._extract_topics_from_conversations, for items that are
\* objects: the first messages longer than 3 characters, joined with " / "
\* and cut at 100 characters.
_extract_topics_from_conversations(convs) ==
    LET usable(c) == c.message.len > TOPIC_MIN_LEN
        kept == SelectSeq2([i \in 1..Len(convs) |-> usable(convs[i])], Len(convs))
        messages == Take([k \in 1..Len(kept) |-> convs[kept[k]].message], TOPIC_MESSAGES)
        combined == SumLen(messages) + SEPARATOR_LEN * (Len(messages) - 1)
    IN  IF messages = <<>>
        THEN [kind |-> "topics", messages |-> <<>>, cut |-> FALSE]
        ELSE [kind |-> "topics", messages |-> messages, cut |-> combined > TOPIC_MAX_LEN]

STORIES_IN_SUMMARY == 3
RECENT_IN_SUMMARY == 5
SIMILAR_IN_SUMMARY == 5

Header(section) == [kind |-> "header", section |-> section]
\* The summary of no parts: the fixed text "no previous conversation record".
NO_HISTORY == <<[kind |-> "no history"]>>

\* The first childName of the stories that is not None.
FirstChildName(stories) ==
    LET named == SelectSeq2([i \in 1..Len(stories) |->
                               stories[i].childName \notin {"absent", None}],
                            Len(stories))
    IN  IF named = <<>> THEN None ELSE stories[named[1]].childName

\* The lines of the completions section.
StoryParts(stories) ==
    [i \in 1..Len(stories) |->
       [kind |-> "story", title |-> GetOr(stories[i].storyTitle, "unknown"),
        abilities |-> _format_abilities(stories[i].totals)]]

\* The lines of the semantic section.
SimilarParts(similar) ==
    [i \in 1..Len(similar) |->
       [kind |-> "match", idx |-> i, score |-> similar[i].score,
        message |-> similar[i].message, response |-> similar[i].response]]

\* _create_context_summary raises when a truthy input is not a list
\* (value[:n] of a dict), when an item it reads is not an object (item.get)
\* and when a total of a story is null (value > 0).
SummaryRaises(recent_convs, story_completions) ==
    LET stories == Take(story_completions.items, STORIES_IN_SUMMARY)
        convs == Take(recent_convs.items, RECENT_IN_SUMMARY)
    IN  \/ /\ IsTruthy(story_completions)
           /\ \/ story_completions.type # "list"
              \/ \E i \in DOMAIN stories : ~stories[i].isDict \/ stories[i].nullTotal
        \/ /\ IsTruthy(recent_convs)
           /\ \/ recent_convs.type # "list"
              \/ \E i \in DOMAIN convs : ~convs[i].isDict

\* The context summary with the recent topics ahead of the completions.
_create_context_summary_recent_first(recent_convs, story_completions, similar_convs) ==
    LET stories == Take(story_completions.items, STORIES_IN_SUMMARY)
        convs == Take(recent_convs.items, RECENT_IN_SUMMARY)
        similar == Take(similar_convs.items, SIMILAR_IN_SUMMARY)
        summary_parts ==
            (IF IsTruthy(recent_convs)
             THEN <<Header("recent"), _extract_topics_from_conversations(convs)>>
             ELSE <<>>)
            \o (IF IsTruthy(story_completions)
                THEN <<Header("completions")>> \o StoryParts(stories) ELSE <<>>)
            \o (IF IsTruthy(similar_convs)
                THEN <<Header("similar")>> \o SimilarParts(similar) ELSE <<>>)
    IN  IF SummaryRaises(recent_convs, story_completions)
        THEN RAISED
        ELSE [ raised |-> FALSE,
               summary |-> IF summary_parts # <<>> THEN summary_parts ELSE NO_HISTORY,
               child_name |-> FirstChildName(stories) ]

\* MemoryService._create_context_summary
_create_context_summary(recent_convs, story_completions, similar_convs) ==
    LET stories == Take(story_completions.items, STORIES_IN_SUMMARY)
        convs == Take(recent_convs.items, RECENT_IN_SUMMARY)
        similar == Take(similar_convs.items, SIMILAR_IN_SUMMARY)
        summary_parts ==
            (IF IsTruthy(story_completions)
             THEN <<Header("completions")>> \o StoryParts(stories) ELSE <<>>)
            \o (IF IsTruthy(recent_convs)
                THEN <<Header("recent"), _extract_topics_from_conversations(convs)>>
                ELSE <<>>)
            \o (IF IsTruthy(similar_convs)
                THEN <<Header("similar")>> \o SimilarParts(similar) ELSE <<>>)
    IN  IF SummaryRaises(recent_convs, story_completions)
        THEN RAISED
        ELSE [ raised |-> FALSE,
               summary |-> IF summary_parts # <<>> THEN summary_parts ELSE NO_HISTORY,
               child_name |-> FirstChildName(stories) ]

(***************************************************************************)
(* The durable store as one call meets it: Unreachable (the request        *)
(* raises), ErrorStatus (raise_for_status raises), NotJson (response.json  *)
(* raises) or Payload, the JSON value of a 2xx response.  The semantic     *)
(* collaborator: the embedding call succeeds or fails, and the query of    *)
(* the index raises, answers without the key matches, or answers with      *)
(* matches.                                                                *)
(***************************************************************************)
StoreOutcome(kind, payload) == [kind |-> kind, payload |-> payload]

StoreFailures ==
    { StoreOutcome(k, JsonNull) : k \in {"Unreachable", "ErrorStatus", "NotJson"} }

M1 == Message("m1", 40)
M2 == Message("m2", 70)
M3 == Message("m3", 4)
M4 == Message("m4", 12)
ShortMessage == Message("hi", 2)

RecentPayloads ==
    { JsonList(<<>>),
      JsonList(<<Conv(M3)>>),
      JsonList(<<Conv(ShortMessage), Conv(AbsentMessage), Conv(NullMessage)>>),
      JsonList(<<Conv(M1), Conv(ShortMessage), Conv(M2), Conv(M3), Conv(M4), Conv(M1)>>),
      JsonList(<<Conv(M1), BadItem>>),
      JsonList(<<Conv(M3), Conv(M3), Conv(M3), Conv(M3), Conv(M3), BadItem>>),
      JsonObject(<<"content">>),
      JsonObject(<<>>),
      JsonNull }

StoryPayloads ==
    { JsonList(<<>>),
      JsonList(<<Story("brave dino", "mina", <<3, 0, 2, 0, 0>>, FALSE)>>),
      JsonList(<<Story("absent", "absent", <<0, 0, 0, 0, 0>>, FALSE)>>),
      JsonList(<<Story("s1", None, <<1, 0, 0, 0, 0>>, FALSE),
                 Story("s2", "mina", <<0, 1, 0, 0, 0>>, FALSE),
                 Story("s3", "jun", <<0, 0, 1, 0, 0>>, FALSE),
                 Story("s4", "jun", <<0, 0, 0, 1, 0>>, TRUE)>>),
      JsonList(<<Story("brave dino", "mina", <<3, 0, 0, 0, 0>>, TRUE)>>),
      JsonList(<<Story("s1", None, <<1, 0, 0, 0, 0>>, FALSE),
                 Story("s2", "absent", <<0, 1, 0, 0, 0>>, FALSE),
                 Story("s3", None, <<0, 0, 1, 0, 0>>, FALSE),
                 Story("s4", None, <<0, 0, 0, 1, 0>>, FALSE),
                 Story("s5", "mina", <<0, 0, 0, 0, 1>>, FALSE)>>),
      JsonList(<<BadStory>>),
      JsonObject(<<"error">>),
      JsonNull }

RecentStores == StoreFailures \cup { StoreOutcome("Payload", p) : p \in RecentPayloads }
StoryStores == StoreFailures \cup { StoreOutcome("Payload", p) : p \in StoryPayloads }

OneMatch == <<Similar("m1", "r1", 91)>>
SixMatches ==
    << Similar("m1", "r1", 91), Similar("m2", "r2", 88), Similar("m3", "r3", 80),
       Similar("m4", "r4", 75), Similar("m5", "r5", 71), Similar("m6", "r6", 60) >>

SemanticOutcomes ==
    { [embedding |-> e, query |-> q, matches |-> <<>>] :
        e \in {"ok", "fails"}, q \in {"raises", "malformed"} } \cup
    { [embedding |-> e, query |-> "matches", matches |-> m] :
        e \in {"ok", "fails"}, m \in {<<>>, OneMatch, SixMatches} }

\* MemoryService.get_recent_conversations
get_recent_conversations(store) ==
    IF store.kind = "Payload" THEN store.payload ELSE JsonList(<<>>)

\* MemoryService.get_story_completions
get_story_completions(store) ==
    IF store.kind = "Payload" THEN store.payload ELSE JsonList(<<>>)

\* MemoryService._get_embedding: the vector, or [] when the call fails
_get_embedding(semantic) == IF semantic.embedding = "ok" THEN "vector" ELSE "[]"

TOP_K == 5

\* MemoryService.search_similar_conversations.  The index refuses a query
\* vector that has not its dimension, so the query of [] raises.
search_similar_conversations(use_pinecone, semantic, top_k) ==
    IF ~use_pinecone
    THEN JsonList(<<>>)
    ELSE IF _get_embedding(semantic) = "[]" \/ semantic.query # "matches"
    THEN JsonList(<<>>)
    ELSE JsonList(Take(semantic.matches, top_k))

Context(raised, recent, similar, stories, summary, child_name) ==
    [ kind |-> "context", raised |-> raised, recent_conversations |-> recent,
      similar_conversations |-> similar, story_completions |-> stories,
      summary |-> summary, child_name |-> child_name ]

\* MemoryService.get_relevant_context: use_semantic_search is None, "True"
\* or "False"
get_relevant_context(use_pinecone, use_semantic_search, recent, stories, semantic) ==
    LET use == IF use_semantic_search = None THEN use_pinecone
               ELSE use_semantic_search = "True"
        recent_convs == get_recent_conversations(recent)
        story_completions == get_story_completions(stories)
        similar_convs == IF use
                         THEN search_similar_conversations(use_pinecone, semantic, TOP_K)
                         ELSE JsonList(<<>>)
        summary_result ==
            _create_context_summary(recent_convs, story_completions, similar_convs)
    IN  IF summary_result.raised
        THEN Context(TRUE, JsonNull, JsonNull, JsonNull, <<>>, None)
        ELSE Context(FALSE, recent_convs, similar_convs, story_completions,
                     summary_result.summary, summary_result.child_name)

MemoryRequest(use_pinecone, use_semantic_search, recent, stories, semantic) ==
    [ op |-> "get_relevant_context", use_pinecone |-> use_pinecone,
      use_semantic_search |-> use_semantic_search, recent |-> recent,
      stories |-> stories, semantic |-> semantic ]

\* A call of get_relevant_context on a MemoryService whose use_pinecone is
\* what __init__ left.
GetRelevantContext ==
    /\ Idle
    /\ \E use_pinecone \in BOOLEAN, use_semantic_search \in {None, "True", "False"},
          recent \in RecentStores, stories \in StoryStores,
          semantic \in SemanticOutcomes :
         /\ lastReq' = MemoryRequest(use_pinecone, use_semantic_search, recent,
                                     stories, semantic)
         /\ lastResp' = get_relevant_context(use_pinecone, use_semantic_search,
                                             recent, stories, semantic)
    /\ UNCHANGED <<OpenAIService, CHARACTER_DESCRIPTIONS, lastServed, lastClassified, chatVars>>

MemoryNext ==
    \/ GetRelevantContext
    \/ Deliver

MemorySpec == Init /\ [][MemoryNext]_vars

(***************************************************************************)
(* The scene endpoint: what its responses hold.                            *)
(***************************************************************************)
SceneRequest == lastReq.op = "generate_next_scene"

\* The collaborator is configured and its reply to this request is a
\* schema-valid scene.
CollaboratorSucceeds ==
    /\ OpenAIService # None
    /\ lastReq.collab.kind = "Json"
    /\ lastReq.collab.reply \in SchemaValidReplies(lastReq.sceneNumber)

AbilityTypes(choices) == { choices[i].abilityType : i \in DOMAIN choices }

\* C1: every scene payload produced for scene number 8 has an empty choice
\* list and isEnding = true, whether the collaborator's reply, the dummy
\* single scene of OpenAIService or the endpoint's fallback produced it.
SceneEightEndsWithoutChoices ==
    (/\ lastResp.kind \in {"scene", "payload"}
     /\ lastReq.sceneNumber = MAX_SCENE)
    => (lastResp.scene.choices = <<>> /\ lastResp.isEnding)

\* C2: every generate_next_scene request, whatever the collaborator does
\* (class not imported, no API key, the call raises, the reply is not JSON
\* or lacks keys), completes with a scene payload and status 200, never
\* with an error response.
CollaboratorFailuresAbsorbed ==
    SceneRequest => (lastResp.kind = "scene" /\ lastResp.status = 200)

C2Witness ==
    /\ SceneRequest
    /\ OpenAIService # None
    /\ lastReq.collab.kind = "Raises"
    /\ lastReq.previousChoices = <<>>
    /\ lastResp.kind = "scene"
    /\ lastResp.source = "fallback"

\* C3: when the collaborator is configured and replies with a schema-valid
\* scene, the endpoint returns that generated scene, not the fallback scene.
GeneratedSceneReturnedOnSuccess ==
    (/\ SceneRequest
     /\ lastReq.sceneNumber \in 1..MAX_SCENE
     /\ CollaboratorSucceeds)
    => lastResp.source = "generated"

DescriptorSetAtSceneOne ==
    (/\ SceneRequest
     /\ lastReq.sceneNumber = 1
     /\ CollaboratorSucceeds
     /\ lastReq.collab.reply.characterDescription # None)
    => CHARACTER_DESCRIPTIONS[lastReq.storyId] # None

\* C6: the response to a scene-1 request that carries a seed title holds a
\* generated title that is not the seed title and a characterDescriptor
\* (here: even when the collaborator replied with both).
SceneOneHasFreshTitleAndDescriptor ==
    (/\ SceneRequest
     /\ lastReq.sceneNumber = 1
     /\ lastReq.storyTitle = SeedTitle
     /\ CollaboratorSucceeds
     /\ lastReq.collab.reply.storyTitle = FreshTitle
     /\ lastReq.collab.reply.characterDescription # None)
    => (/\ lastResp.storyTitle \notin {None, SeedTitle}
        /\ lastResp.characterDescription # None)

FallbackBelowEight ==
    /\ SceneRequest
    /\ lastResp.source = "fallback"
    /\ lastReq.sceneNumber < MAX_SCENE

OutOfRangeSceneRejected ==
    (\/ lastReq.op = "generate_next_scene_invalid"
     \/ SceneRequest /\ lastReq.sceneNumber \notin 1..MAX_SCENE)
    => lastResp.kind = "rejected"

\* C9: the scene numbers served to a session are 1, 2, ..., 8 in order: a
\* scene served right after scene n of the same story has number n + 1.
ScenesServedInOrder ==
    (/\ SceneRequest
     /\ lastResp.kind = "scene"
     /\ lastServed.story = lastReq.storyId)
    => lastResp.scene.sceneNumber = lastServed.number + 1

(***************************************************************************)
(* The choice classifier: what its results hold.                           *)
(***************************************************************************)
ClassifyRequested == lastReq.op = "analyze_custom_choice"

\* C10: every analyze_custom_choice result with isNegative = true has
\* abilityPoints = 0 and abilityType = null and carries a feedback message,
\* on the collaborator path and on the keyword-fallback path.
NegativeResultRedirects ==
    (ClassifyRequested /\ lastResp.isNegative)
    => (/\ lastResp.abilityPoints = 0
        /\ lastResp.abilityType = None
        /\ lastResp.feedback \notin {None, ""})

\* The collaborator was not reached or failed: the class is not imported,
\* there is no API key, the call raises, or the reply is not a JSON object.
CollaboratorUnavailable ==
    OpenAIService = None \/ lastReq.collab.kind # "Json"

\* C11: the text "dongsaengeul ttaeryeojulgeoya" is classified with
\* isNegative = true and abilityPoints = 0, with the collaborator available
\* and with the collaborator unavailable (keyword fallback).
ThreatIsNegativeOnEveryPath ==
    (ClassifyRequested /\ lastReq.text = ThreatToSibling)
    => (lastResp.isNegative /\ lastResp.abilityPoints = 0)

\* C12: under the keyword fallback the text "museowodo dojeonhaebolge" is
\* classified with isNegative = false, abilityType yonggi and abilityPoints
\* 14: the base 12 of the strong tier and the bonus 2.
ScaredButTryingIsCourageFourteen ==
    (/\ ClassifyRequested
     /\ lastReq.text = ScaredButTrying
     /\ lastResp.path = "fallback")
    => (/\ ~lastResp.isNegative
        /\ lastResp.abilityType = "yonggi"
        /\ lastResp.abilityPoints = 14)

C12Witness ==
    /\ ClassifyRequested
    /\ lastReq.text = ScaredButTrying
    /\ OpenAIService # None
    /\ lastReq.collab.kind = "Raises"
    /\ lastResp.path = "fallback"
    /\ lastResp.abilityPoints = 14

\* The request is a classification by the keyword fallback of the text that
\* the keyword fallback classified before.
ClassifiedAgain ==
    /\ ClassifyRequested
    /\ lastResp.path = "fallback"
    /\ lastClassified # NoneClassified
    /\ lastClassified.text = lastReq.text

PositiveResultHasOneOfFiveAbilities ==
    (ClassifyRequested /\ ~lastResp.isNegative)
    => lastResp.abilityType \in ABILITIES

\* C15: every analyze_custom_choice result with isNegative = false has
\* abilityPoints between 8 and 17, for every points value of the collaborator
\* and every tier of the fallback.
PositiveResultPointsInRange ==
    (ClassifyRequested /\ ~lastResp.isNegative)
    => lastResp.abilityPoints \in 8..MAX_ABILITY_POINTS

\* A reply that has the fields of the response contract, with their types:
\* a negative one its reason and its feedback, a positive one an ability,
\* integer points and its feedback.
WellFormedReply(r) ==
    /\ r.isNegative \in {"true", "false"}
    /\ r.feedback \notin {"absent", None}
    /\ r.isNegative = "true" => r.negativeReason # "absent"
    /\ r.isNegative = "false"
         => (r.abilityType \in ABILITIES /\ r.abilityPoints.kind = "int")

\* C16: after any failure of the collaborator (no client, the call raises,
\* the reply is not JSON, or is JSON with missing or wrong-typed fields) the
\* result of analyze_custom_choice is exactly the keyword-fallback result of
\* the text.
CollaboratorFailureGivesKeywordFallback ==
    (/\ ClassifyRequested
     /\ CollaboratorUnavailable \/ ~WellFormedReply(lastReq.collab.reply))
    => lastResp = KeywordFallback(Lower(lastReq.text))

(***************************************************************************)
(* The memory retriever: what get_relevant_context returns.                *)
(***************************************************************************)
ContextRequested == lastReq.op = "get_relevant_context"

EmptyList == JsonList(<<>>)

\* C17: get_relevant_context never raises, whatever the durable store and
\* the semantic collaborator do (unreachable, error status, unexpected
\* payload), and a source that cannot be read contributes an empty list.
RetrievalNeverRaises ==
    ContextRequested
    => (/\ ~lastResp.raised
        /\ lastReq.recent.kind # "Payload" => lastResp.recent_conversations = EmptyList
        /\ lastReq.stories.kind # "Payload" => lastResp.story_completions = EmptyList)

\* The semantic search is disabled, or its embedding or query call fails.
SemanticSearchOffOrFailing ==
    \/ ~lastReq.use_pinecone
    \/ lastReq.use_semantic_search = "False"
    \/ lastReq.semantic.embedding = "fails"
    \/ lastReq.semantic.query # "matches"

\* C18: with the semantic search disabled or failing, get_relevant_context
\* returns similar_conversations = [] and the summary built from the recent
\* turns and the story completions alone.
SemanticFailureOmitsMatches ==
    (ContextRequested /\ SemanticSearchOffOrFailing)
    => (/\ ~lastResp.raised
        /\ lastResp.similar_conversations = EmptyList
        /\ \A i \in DOMAIN lastResp.summary : lastResp.summary[i].kind # "match"
        /\ Header("similar") \notin { lastResp.summary[i] : i \in DOMAIN lastResp.summary })

\* C19: the summary of get_relevant_context is always present and non-empty,
\* and it is the fixed "no history" text exactly when the recent turns, the
\* story completions and the semantic matches are all empty.
SummaryAlwaysPresent ==
    ContextRequested
    => (/\ ~lastResp.raised
        /\ lastResp.summary # <<>>
        /\ lastResp.summary = NO_HISTORY
             <=> (/\ ~IsTruthy(lastResp.recent_conversations)
                  /\ ~IsTruthy(lastResp.story_completions)
                  /\ ~IsTruthy(lastResp.similar_conversations)))

\* The sections of a summary, in the order of their headers.
SectionsOf(summary) ==
    LET headers == SelectSeq2([i \in 1..Len(summary) |-> summary[i].kind = "header"],
                              Len(summary))
    IN  [k \in 1..Len(headers) |-> summary[headers[k]].section]

\* C20: the summary holds its sections in the order completions, recent
\* topics, semantic matches, each present exactly when its list is not empty.
SummarySectionsInFixedOrder ==
    (ContextRequested /\ ~lastResp.raised)
    => SectionsOf(lastResp.summary)
         = (IF IsTruthy(lastResp.story_completions) THEN <<"completions">> ELSE <<>>)
           \o (IF IsTruthy(lastResp.recent_conversations) THEN <<"recent">> ELSE <<>>)
           \o (IF IsTruthy(lastResp.similar_conversations) THEN <<"similar">> ELSE <<>>)

C20Witness ==
    /\ ContextRequested
    /\ ~lastResp.raised
    /\ SectionsOf(lastResp.summary) = <<"completions", "recent", "similar">>
    /\ Len(lastResp.similar_conversations.items) = TOP_K

\* The story completions that the store returned, most recent first.
RetrievedStories == lastReq.stories.payload.items

\* C21: when the earliest of the retrieved story completions (at most 5,
\* most recent first) holds the name of the child, the context that
\* get_relevant_context returns holds that name.
EarliestChildNameKept ==
    (/\ ContextRequested
     /\ lastReq.stories.kind = "Payload"
     /\ lastReq.stories.payload.type = "list"
     /\ RetrievedStories # <<>>
     /\ RetrievedStories[Len(RetrievedStories)].isDict
     /\ RetrievedStories[Len(RetrievedStories)].childName \notin {"absent", None})
    => (/\ ~lastResp.raised
        /\ lastResp.child_name = RetrievedStories[Len(RetrievedStories)].childName)

\* The strongest tier of the keywords of one ability that the text holds:
\* 3 strong, 2 medium, 1 weak, 0 none.
TierIn(text, levels) ==
    IF AnyIn(levels.strong, text) THEN 3
    ELSE IF AnyIn(levels.medium, text) THEN 2
    ELSE IF AnyIn(levels.weak, text) THEN 1
    ELSE 0

\* The strongest tier that the text holds of any ability.
StrongestTier(text) ==
    CHOOSE t \in 0..3 :
        /\ \E i \in DOMAIN POSITIVE_KEYWORDS : TierIn(text, POSITIVE_KEYWORDS[i]) >= t
        /\ \A i \in DOMAIN POSITIVE_KEYWORDS : TierIn(text, POSITIVE_KEYWORDS[i]) <= t

\* The base points of a tier: strong 12, medium 10, weak 8.
BaseOfTier(t) == IF t = 3 THEN 12 ELSE IF t = 2 THEN 10 ELSE 8

\* C26: under the keyword fallback a non-negative text is assigned the
\* ability of its strongest keyword match, with base 12, 10 or 8 for the
\* tiers strong, medium and weak (plus the bonus); a text with no keyword is
\* assigned chaegimgam with base 10; a text with a strong keyword of one
\* ability and only a weak keyword of another is assigned the former.
StrongestKeywordWins ==
    (/\ ClassifyRequested
     /\ lastResp.path = "fallback"
     /\ ~lastResp.isNegative)
    => IF StrongestTier(Lower(lastReq.text)) = 0
       THEN /\ lastResp.abilityType = "chaegimgam"
            /\ lastResp.abilityPoints = 10 + CUSTOM_CHOICE_BONUS
       ELSE /\ \E i \in DOMAIN POSITIVE_KEYWORDS :
                 /\ POSITIVE_KEYWORDS[i].ability = lastResp.abilityType
                 /\ TierIn(Lower(lastReq.text), POSITIVE_KEYWORDS[i])
                        = StrongestTier(Lower(lastReq.text))
            /\ lastResp.abilityPoints =
                   BaseOfTier(StrongestTier(Lower(lastReq.text))) + CUSTOM_CHOICE_BONUS

(***************************************************************************)
(* Story search and recommendation (story_generator.py).  A match of the   *)
(* vector index has an id, a title in its metadata ("absent" when the      *)
(* metadata has none) and a score in hundredths.  The index answers a      *)
(* query with its matches in the order of their rank.                      *)
(***************************************************************************)
DEFAULT_TITLE == "jemog eobseum"

Match(id, title, score) == [id |-> id, title |-> title, score |-> score]

SearchStory(story_id, title, matching_score) ==
    [story_id |-> story_id, title |-> title, matching_score |-> matching_score]

\* _normalize: the keys storyId, title and matchingScore of every item
_normalize(items) ==
    [ i \in DOMAIN items |->
        [ storyId |-> items[i].story_id, title |-> items[i].title,
          matchingScore |-> items[i].matching_score ] ]

DUMMY_STORIES ==
    << SearchStory("new_sibling", "sae dongsaenggwaui haru", 96),
       SearchStory("brave_little_star", "jageun byeorui yonggi", 93),
       SearchStory("forest_friends", "supsok chingudeul", 89),
       SearchStory("angry_rabbit", "hwanan tokkiui haru", 85),
       SearchStory("magic_adventure", "mabeobui moheom", 82) >>

\* _get_dummy_stories: dummy[:top_k]
_get_dummy_stories(top_k) == Take(DUMMY_STORIES, top_k)

\* meta.get("title", default) of a match
TitleOf(m) == IF m.title = "absent" THEN DEFAULT_TITLE ELSE m.title

RECURSIVE CollectStories(_, _, _, _)
\* The loop of search_stories over the matches, from the i-th on: a match
\* whose id or whose title was seen is skipped, and the loop ends when top_k
\* stories are collected.
CollectStories(matches, i, stories, top_k) ==
    IF i > Len(matches)
    THEN stories
    ELSE LET m == matches[i]
             seen == \E j \in DOMAIN stories :
                        stories[j].story_id = m.id \/ stories[j].title = TitleOf(m)
             more == Append(stories, SearchStory(m.id, TitleOf(m), m.score))
         IN  IF seen
             THEN CollectStories(matches, i + 1, stories, top_k)
             ELSE IF Len(more) >= top_k
             THEN more
             ELSE CollectStories(matches, i + 1, more, top_k)

\* What the index returns for a query of top_k * 2 matches.
Queried(matches, top_k) == Take(matches, top_k * 2)

\* search_stories.  index is "NoIndex" (not connected), "NoEmbedding" (the
\* embedding cannot be made), "QueryRaises" or "Matches".
search_stories(index, matches, top_k) ==
    IF index # "Matches"
    THEN _normalize(_get_dummy_stories(top_k))
    ELSE _normalize(CollectStories(Queried(matches, top_k), 1, <<>>, top_k))

\* The ids of the completed stories of the child as recommend_stories_async
\* reads them: none without a child id or when the store is unreachable.
ReadStoryIds(read) == IF read.kind = "Payload" THEN read.ids ELSE {}

\* generate_story_summary and the except branch of add_ai_summary: the kind
\* of text under metadata["ai_summary"].
AiSummary(summarizer) ==
    IF summarizer = "NoKey" THEN "default"
    ELSE IF summarizer = "Raises" THEN "default after failure"
    ELSE "generated"

recommend_stories_async(index, matches, read, limit, summarizer) ==
    LET stories == search_stories(index, matches, limit * 3)
        filtered_stories ==
            Take(SelectSeq(stories, LAMBDA s : s.storyId \notin ReadStoryIds(read)), limit)
    IN  [ i \in DOMAIN filtered_stories |->
            [ storyId |-> filtered_stories[i].storyId,
              title |-> filtered_stories[i].title,
              matchingScore |-> filtered_stories[i].matchingScore,
              ai_summary |-> AiSummary(summarizer) ] ]

\* The matches of the index that the requests are answered from, each
\* vector under its own id: two stories of one title and a match without a
\* title among them.
MatchPool ==
    << Match("s1", "ta", 95), Match("s2", "ta", 90), Match("s3", "tb", 85),
       Match("s4", "tc", 80), Match("s6", "td", 75), Match("s5", "absent", 70) >>

\* The matches of the pool at the places of keep, in the order of the rank.
RECURSIVE Ranked(_, _)
Ranked(keep, i) ==
    IF i > Len(MatchPool) THEN <<>>
    ELSE (IF i \in keep THEN <<MatchPool[i]>> ELSE <<>>) \o Ranked(keep, i + 1)

\* Ten raw candidates with three duplicate titles.
TenWithThreeDuplicates ==
    << Match("r1", "u1", 99), Match("r2", "u1", 98), Match("r3", "u2", 97),
       Match("r4", "u2", 96), Match("r5", "u3", 95), Match("r6", "u3", 94),
       Match("r7", "u4", 93), Match("r8", "u5", 92), Match("r9", "u6", 91),
       Match("r10", "u7", 90) >>

MatchLists ==
    { Ranked(keep, 1) : keep \in SUBSET DOMAIN MatchPool } \cup {TenWithThreeDuplicates}

\* The index and the matches that it answers with.
SearchIndexes ==
    { [index |-> i, matches |-> <<>>] : i \in {"NoIndex", "NoEmbedding", "QueryRaises"} }
    \cup { [index |-> "Matches", matches |-> m] : m \in MatchLists }

\* GET /story/completions/child/{child_id}: no child id, an unreachable
\* store, or the ids of the stories that the child completed.
ReadOutcomes ==
    { [kind |-> "NoChild", ids |-> {}], [kind |-> "Unreachable", ids |-> {}] } \cup
    { [kind |-> "Payload", ids |-> ids] :
        ids \in (SUBSET {"s1", "s3", "s4"}) \cup
                { {"r1", "r3"},
                  {"new_sibling", "brave_little_star", "forest_friends"} } }

Limits == {1, 2, 5}

Summarizers == {"NoKey", "Raises", "Replies"}

StoryList(items) == [kind |-> "stories", items |-> items]

\* A call of recommend_stories_async.
RecommendStories ==
    /\ Idle
    /\ \E idx \in SearchIndexes, read \in ReadOutcomes, limit \in Limits,
          summarizer \in Summarizers :
         /\ lastReq' = [ op |-> "recommend_stories_async", index |-> idx.index,
                         matches |-> idx.matches, read |-> read, limit |-> limit,
                         summarizer |-> summarizer ]
         /\ lastResp' = StoryList(recommend_stories_async(idx.index, idx.matches,
                                                          read, limit, summarizer))
    /\ UNCHANGED <<OpenAIService, CHARACTER_DESCRIPTIONS, lastServed, lastClassified, chatVars>>

\* A call of search_stories.
SearchStories ==
    /\ Idle
    /\ \E idx \in SearchIndexes, top_k \in Limits \cup {3} :
         /\ lastReq' = [ op |-> "search_stories", index |-> idx.index,
                         matches |-> idx.matches, top_k |-> top_k ]
         /\ lastResp' = StoryList(search_stories(idx.index, idx.matches, top_k))
    /\ UNCHANGED <<OpenAIService, CHARACTER_DESCRIPTIONS, lastServed, lastClassified, chatVars>>

RecommendNext ==
    \/ RecommendStories
    \/ SearchStories
    \/ Deliver

RecommendSpec == Init /\ [][RecommendNext]_vars

RecommendRequested == lastReq.op = "recommend_stories_async"

SearchRequested == lastReq.op = "search_stories"

\* The raw candidates of a recommendation: what the search has to choose
\* from, the answer of the index or the dummy list.
RawCandidates ==
    IF lastReq.index = "Matches"
    THEN LET q == Queried(lastReq.matches, lastReq.limit * 3)
         IN  [i \in DOMAIN q |-> [id |-> q[i].id, title |-> TitleOf(q[i])]]
    ELSE LET d == _get_dummy_stories(lastReq.limit * 3)
         IN  [i \in DOMAIN d |-> [id |-> d[i].story_id, title |-> d[i].title]]

\* The titles of the raw candidates of which the child has read no story.
TitlesNotRead ==
    { RawCandidates[i].title : i \in DOMAIN RawCandidates } \
    { RawCandidates[i].title :
        i \in { j \in DOMAIN RawCandidates : RawCandidates[j].id \in lastReq.read.ids } }

PairwiseDistinct(items) ==
    \A i, j \in DOMAIN items :
        i # j => (items[i].storyId # items[j].storyId /\ items[i].title # items[j].title)

\* C23: recommend_stories_async with limit L returns a list with pairwise
\* distinct titles and story ids, never longer than L, and of length L
\* whenever the raw candidates hold at least L distinct titles that the
\* child has not read; search_stories returns at most top_k items with
\* pairwise distinct ids and titles, with and without a connected index.
RecommendationsDistinctAndFull ==
    /\ RecommendRequested =>
         /\ PairwiseDistinct(lastResp.items)
         /\ Len(lastResp.items) <= lastReq.limit
         /\ Cardinality(TitlesNotRead) >= lastReq.limit
              => Len(lastResp.items) = lastReq.limit
    /\ SearchRequested =>
         /\ PairwiseDistinct(lastResp.items)
         /\ Len(lastResp.items) <= lastReq.top_k

(***************************************************************************)
(* The memory query endpoints (memory_query.py).  Each asks the shared     *)
(* MemoryService, made with use_pinecone=True, whether __init__ left the   *)
(* index enabled.  A stored vector has the metadata child_id, session_id   *)
(* and created_at.                                                         *)
(***************************************************************************)
PINECONE_DISABLED_SET_KEY == "Pinecone is not enabled. Please set CHATBOT_PINECONE_API_KEY"

PINECONE_DISABLED == "Pinecone is not enabled"

\* raise HTTPException(status_code, detail)
HTTPException(status_code, detail) ==
    [kind |-> "http", status |-> status_code, detail |-> detail, body |-> <<>>]

\* The answer of status 200 with the conversations of the body.
Ok(conversations) ==
    [kind |-> "http", status |-> 200, detail |-> "", body |-> conversations]

\* str(e) of an HTTPException
Str(e) == IF e.status = 503 THEN "503: " \o e.detail ELSE "500: " \o e.detail

\* except Exception as e: raise HTTPException(status_code=500, detail=str(e)).
\* HTTPException is an Exception, so the handler catches what the try block
\* raised itself.
ExceptException(outcome) ==
    IF outcome.status # 200 THEN HTTPException(500, Str(outcome)) ELSE outcome

Vector(id, child_id, session_id, created_at) ==
    [id |-> id, child_id |-> child_id, session_id |-> session_id, created_at |-> created_at]

StoredVectors ==
    { Vector("msg_1", 1, 1, 10), Vector("msg_2", 1, 1, 20),
      Vector("msg_3", 1, 2, 30), Vector("msg_4", 2, 3, 40) }

RECURSIVE Sorted(_, _)
\* sort by created_at; reverse is TRUE for the latest first
Sorted(vectors, reverse) ==
    IF vectors = {} THEN <<>>
    ELSE LET first == CHOOSE v \in vectors : \A w \in vectors :
                          IF reverse THEN w.created_at <= v.created_at
                                     ELSE v.created_at <= w.created_at
         IN  <<first>> \o Sorted(vectors \ {first}, reverse)

\* index.list and index.fetch: "Raises", "Nothing" (no answer, or one
\* without vectors) or "Vectors".
IndexOutcomes ==
    { [kind |-> k, vectors |-> {}] : k \in {"Raises", "Nothing"} } \cup
    { [kind |-> "Vectors", vectors |-> v] : v \in SUBSET StoredVectors }

\* The body of the try block of get_conversations_by_child
ConversationsByChild(use_pinecone, index, child_id, limit) ==
    IF ~use_pinecone THEN HTTPException(503, PINECONE_DISABLED_SET_KEY)
    ELSE IF index.kind = "Raises" THEN HTTPException(500, "index")
    ELSE Ok(Take(Sorted({v \in index.vectors : v.child_id = child_id}, TRUE), limit))

get_conversations_by_child(use_pinecone, index, child_id, limit) ==
    ExceptException(ConversationsByChild(use_pinecone, index, child_id, limit))

\* The body of the try block of search_conversations
SearchConversations(use_pinecone, semantic, limit) ==
    IF ~use_pinecone THEN HTTPException(503, PINECONE_DISABLED)
    ELSE Ok(search_similar_conversations(use_pinecone, semantic, limit).items)

search_conversations(use_pinecone, semantic, limit) ==
    ExceptException(SearchConversations(use_pinecone, semantic, limit))

\* The body of the try block of get_conversations_by_session
ConversationsBySession(use_pinecone, index, session_id, limit) ==
    IF ~use_pinecone THEN HTTPException(503, PINECONE_DISABLED)
    ELSE IF index.kind = "Raises" THEN HTTPException(500, "index")
    ELSE Ok(Take(Sorted({v \in index.vectors : v.session_id = session_id}, FALSE), limit))

get_conversations_by_session(use_pinecone, index, session_id, limit) ==
    ExceptException(ConversationsBySession(use_pinecone, index, session_id, limit))

QueryLimits == {1, 2}

GetConversationsByChild ==
    /\ Idle
    /\ \E use_pinecone \in BOOLEAN, index \in IndexOutcomes, child_id \in {1, 2},
          limit \in QueryLimits :
         /\ lastReq' = [ op |-> "get_conversations_by_child", use_pinecone |-> use_pinecone,
                         index |-> index, child_id |-> child_id, limit |-> limit ]
         /\ lastResp' = get_conversations_by_child(use_pinecone, index, child_id, limit)
    /\ UNCHANGED <<OpenAIService, CHARACTER_DESCRIPTIONS, lastServed, lastClassified, chatVars>>

SearchConversationsRequest ==
    /\ Idle
    /\ \E use_pinecone \in BOOLEAN, semantic \in SemanticOutcomes, limit \in QueryLimits :
         /\ lastReq' = [ op |-> "search_conversations", use_pinecone |-> use_pinecone,
                         semantic |-> semantic, limit |-> limit ]
         /\ lastResp' = search_conversations(use_pinecone, semantic, limit)
    /\ UNCHANGED <<OpenAIService, CHARACTER_DESCRIPTIONS, lastServed, lastClassified, chatVars>>

GetConversationsBySession ==
    /\ Idle
    /\ \E use_pinecone \in BOOLEAN, index \in IndexOutcomes, session_id \in {1, 2, 3},
          limit \in QueryLimits :
         /\ lastReq' = [ op |-> "get_conversations_by_session", use_pinecone |-> use_pinecone,
                         index |-> index, session_id |-> session_id, limit |-> limit ]
         /\ lastResp' = get_conversations_by_session(use_pinecone, index, session_id, limit)
    /\ UNCHANGED <<OpenAIService, CHARACTER_DESCRIPTIONS, lastServed, lastClassified, chatVars>>

QueryNext ==
    \/ GetConversationsByChild
    \/ SearchConversationsRequest
    \/ GetConversationsBySession
    \/ Deliver

QuerySpec == Init /\ [][QueryNext]_vars

QueryRequested ==
    lastReq.op \in {"get_conversations_by_child", "search_conversations",
                    "get_conversations_by_session"}

\* C27: when the semantic index is not enabled, the memory query endpoints
\* (conversations by child, search, conversations by session) answer with
\* status 503 and the detail "Pinecone is not enabled", not with status 500.
DisabledIndexAnswers503 ==
    (QueryRequested /\ ~lastReq.use_pinecone)
    => (/\ lastResp.status = 503
        /\ lastResp.detail \in {PINECONE_DISABLED, PINECONE_DISABLED_SET_KEY})

(***************************************************************************)
(* The operations of the chat service.  A coroutine runs without           *)
(* interruption from one await to the next, so a call is a sequence of     *)
(* steps, one per await: the restoration of the history ("restore"), the   *)
(* analysis of the emotion ("emotion"), the load of the story context      *)
(* ("load"), and the retrieval of the memory with the reply of the         *)
(* collaborator ("reply", for the first message "greet").                  *)
(***************************************************************************)
MaxCalls == 2

HISTORY_LIMIT == 20

Entry(role, content, context) == [role |-> role, content |-> content, context |-> context]

\* A message of the durable chat record: its sender and its text.
Stored(sender, message) == [sender |-> sender, message |-> message]

\* 22 messages: the child and the assistant in turn, the fifth and the
\* fifteenth of another sender.
LongChat ==
    [ i \in 1..22 |->
        Stored(IF i \in {5, 15} THEN "SYSTEM" ELSE IF i % 2 = 1 THEN "USER" ELSE "AI", i) ]

\* GET /chat/{session_id}: a failure, or the record with its messages.
RestoreOutcomes ==
    { [kind |-> "Unreachable", messages |-> <<>>] } \cup
    { [kind |-> "Payload", messages |-> m] : m \in {<<>>, LongChat} }

\* messages[-n:]
LastN(seq, n) == IF Len(seq) > n THEN SubSeq(seq, Len(seq) - n + 1, Len(seq)) ELSE seq

\* The restoration that keeps the oldest messages of the record.
_restore_conversation_history_oldest(outcome) ==
    IF outcome.kind # "Payload"
    THEN <<>>
    ELSE LET kept == SelectSeq(Take(outcome.messages, HISTORY_LIMIT),
                               LAMBDA m : m.sender \in {"USER", "AI"})
         IN  [ i \in DOMAIN kept |->
                 Entry(IF kept[i].sender = "USER" THEN "user" ELSE "assistant",
                       kept[i].message, "none") ]

\* _restore_conversation_history: the list that it stores for the session
_restore_conversation_history(outcome) ==
    IF outcome.kind # "Payload"
    THEN <<>>
    ELSE LET kept == SelectSeq(LastN(outcome.messages, HISTORY_LIMIT),
                               LAMBDA m : m.sender \in {"USER", "AI"})
         IN  [ i \in DOMAIN kept |->
                 Entry(IF kept[i].sender = "USER" THEN "user" ELSE "assistant",
                       kept[i].message, "none") ]

\* The completion record of the session in the durable store.
CompletionRecord == StoryContext("s1", Abilities(<<2, 1, 0, 2, 0>>, FALSE), <<"c1", "c2">>)

\* A completion record with "totalEmpathy": null.
CompletionRecordWithNull == StoryContext("s1", Abilities(<<2, 0, 0, 2, 0>>, TRUE), <<"c1">>)

\* GET /chat/{session_id}/story-completion: a failure (404 or another), or
\* the record.
LoadOutcomes ==
    { [kind |-> "Unreachable", story |-> NoStoryContext],
      [kind |-> "Record", story |-> CompletionRecord],
      [kind |-> "Record", story |-> CompletionRecordWithNull] }

\* _load_story_context_from_backend: the context that it stores for the
\* session, none when the read fails
_load_story_context_from_backend(outcome, held) ==
    IF outcome.kind = "Record" THEN outcome.story ELSE held

\* The story of a request of init-from-story.
StoryRequests ==
    { StoryContext("s1", Abilities(t, FALSE), <<"c1">>) :
        t \in { <<3, 1, 0, 2, 0>>, <<1, 1, 0, 2, 0>>, <<-1, 0, 0, 0, 0>> } }

\* _format_ability_details raises on "value > 0" when a total is null.
FormatRaises(context) == context.present /\ context.abilities.nulls

\* The history of the session with the message of the child appended.
AppendUser(entries, message) == Append(entries, Entry("user", message, "none"))

\* The number of the text that the collaborator replies with.
ReplyTo(message) == message + 100

\* The end of generate_response that takes the message of the child out of
\* the history when the call fails.
ReplyReturnedForgetting(history, message, outcome) ==
    IF outcome = "ok" /\ history.present
    THEN [ history |-> History(Append(history.entries,
                                      Entry("assistant", ReplyTo(message), "none"))),
           kind |-> "reply" ]
    ELSE [ history |-> IF history.present /\ history.entries # <<>>
                       THEN History(SubSeq(history.entries, 1, Len(history.entries) - 1))
                       ELSE history,
           kind |-> "apology" ]

\* The end of generate_response: the reply is appended and returned; when
\* the memory or the collaborator raises, or the session is no key of the
\* history any more, the apology is returned.
ReplyReturned(history, message, outcome) ==
    IF outcome = "ok" /\ history.present
    THEN [ history |-> History(Append(history.entries,
                                      Entry("assistant", ReplyTo(message), "none"))),
           kind |-> "reply" ]
    ELSE [history |-> history, kind |-> "apology"]

\* The end of generate_first_message_from_story.
GreetingReturned(history, message, outcome) ==
    IF outcome = "ok" /\ history.present
    THEN [ history |-> History(Append(history.entries,
                                      Entry("assistant", ReplyTo(message), "story_completion"))),
           kind |-> "greeting" ]
    ELSE [history |-> history, kind |-> "fallback greeting"]

\* clear_history that empties the dictionary.
clear_history_of_all(history, session_id) == [s \in Sessions |-> NoHistory]

\* clear_history
clear_history(history, session_id) == [history EXCEPT ![session_id] = NoHistory]

\* The call goes on to the await pc, or returns at once with the apology:
\* generate_response has the message of the child in the history and builds
\* the prompt with the story context of the session.
WithContext(call, context) ==
    IF FormatRaises(context) THEN NoCall ELSE [call EXCEPT !.pc = "reply"]

\* What a call that became next in a step returned in it.
Returned(next, kind) == IF next = NoCall THEN kind ELSE "none"

\* The free place of a call.
Free(c) == calls[c] = NoCall /\ \A d \in Calls : d < c => calls[d] # NoCall

\* generate_response, up to its first await.
GenerateResponse(c, s) ==
    /\ Free(c)
    /\ begun < MaxCalls
    /\ begun' = begun + 1
    /\ LET message == 100 + begun + 1
           call == Call("generate_response", "restore", s, message, NoStoryContext)
           next == IF USE_RAG /\ ~conversation_history[s].present THEN call
                   ELSE IF USE_RAG THEN [call EXCEPT !.pc = "emotion"]
                   ELSE IF ~story_context[s].present THEN [call EXCEPT !.pc = "load"]
                   ELSE WithContext(call, story_context[s])
       IN  /\ calls' = [calls EXCEPT ![c] = next]
           /\ lastStep' = Step("GenerateResponse", s, message, "none", <<>>,
                               NoStoryContext, Returned(next, "apology"))
           /\ IF USE_RAG /\ ~conversation_history[s].present
              THEN UNCHANGED <<conversation_history, pending>>
              ELSE /\ conversation_history' =
                        [conversation_history EXCEPT
                           ![s] = History(AppendUser(conversation_history[s].entries, message))]
                   /\ pending' = [pending EXCEPT ![s] = @ \cup {message}]
    /\ UNCHANGED <<USE_RAG, story_context, restarted, storyVars>>

\* generate_first_message_from_story, up to its first await.
GenerateFirstMessage(c, s) ==
    /\ Free(c)
    /\ begun < MaxCalls
    /\ begun' = begun + 1
    /\ \E story \in StoryRequests :
         LET message == 100 + begun + 1
             call == Call("generate_first_message_from_story", "restore", s, message,
                          story)
         IN  /\ lastStep' = Step("GenerateFirstMessage", s, message, "none", <<>>, story,
                                 "none")
             /\ IF USE_RAG /\ ~conversation_history[s].present
                THEN /\ calls' = [calls EXCEPT ![c] = call]
                     /\ UNCHANGED <<conversation_history, story_context>>
                ELSE /\ conversation_history' =
                          [conversation_history EXCEPT
                             ![s] = History(conversation_history[s].entries)]
                     /\ story_context' = [story_context EXCEPT ![s] = story]
                     /\ calls' = [calls EXCEPT ![c] = [call EXCEPT !.pc = "greet"]]
    /\ UNCHANGED <<USE_RAG, pending, restarted, storyVars>>

\* _restore_conversation_history returns, and the call goes on to its next
\* await.
FinishRestore(c) ==
    /\ calls[c].pc = "restore"
    /\ \E outcome \in RestoreOutcomes :
         LET s == calls[c].session
             restored == _restore_conversation_history(outcome)
         IN  /\ lastStep' = Step("FinishRestore", s, calls[c].message, outcome.kind,
                                 outcome.messages, NoStoryContext, "none")
             /\ IF calls[c].op = "generate_response"
                THEN /\ conversation_history' =
                          [conversation_history EXCEPT
                             ![s] = History(AppendUser(restored, calls[c].message))]
                     /\ pending' = [pending EXCEPT ![s] = @ \cup {calls[c].message}]
                     /\ calls' = [calls EXCEPT ![c].pc = "emotion"]
                     /\ UNCHANGED story_context
                ELSE /\ conversation_history' =
                          [conversation_history EXCEPT ![s] = History(restored)]
                     /\ story_context' = [story_context EXCEPT ![s] = calls[c].story]
                     /\ calls' = [calls EXCEPT ![c].pc = "greet"]
                     /\ UNCHANGED pending
    /\ UNCHANGED <<USE_RAG, begun, restarted, storyVars>>

\* _analyze_dino_emotion returns: the emotion, or "neutral" when its call
\* of the collaborator fails.
FinishEmotion(c) ==
    /\ calls[c].pc = "emotion"
    /\ \E emotion \in {"ok", "fails"} :
         LET s == calls[c].session
             next == IF ~story_context[s].present THEN [calls[c] EXCEPT !.pc = "load"]
                     ELSE WithContext(calls[c], story_context[s])
         IN  /\ calls' = [calls EXCEPT ![c] = next]
             /\ lastStep' = Step("FinishEmotion", s, calls[c].message, emotion, <<>>,
                                 NoStoryContext, Returned(next, "apology"))
    /\ UNCHANGED <<USE_RAG, conversation_history, story_context, begun, pending,
                   restarted, storyVars>>

\* _load_story_context_from_backend returns.
FinishLoad(c) ==
    /\ calls[c].pc = "load"
    /\ \E outcome \in LoadOutcomes :
         LET s == calls[c].session
             context == _load_story_context_from_backend(outcome, story_context[s])
             next == WithContext(calls[c], context)
         IN  /\ calls' = [calls EXCEPT ![c] = next]
             /\ lastStep' = Step("FinishLoad", s, calls[c].message, outcome.kind, <<>>,
                                 outcome.story, Returned(next, "apology"))
             /\ story_context' = [story_context EXCEPT ![s] = context]
    /\ UNCHANGED <<USE_RAG, conversation_history, begun, pending, restarted, storyVars>>

\* get_relevant_context and the reply of the collaborator return, or one
\* of them raises.
FinishReply(c) ==
    /\ calls[c].pc = "reply"
    /\ \E outcome \in {"ok", "raises"} :
         LET s == calls[c].session
             end == ReplyReturned(conversation_history[s], calls[c].message, outcome)
         IN  /\ lastStep' = Step("FinishReply", s, calls[c].message, outcome, <<>>,
                                 NoStoryContext, end.kind)
             /\ conversation_history' = [conversation_history EXCEPT ![s] = end.history]
             /\ calls' = [calls EXCEPT ![c] = NoCall]
    /\ UNCHANGED <<USE_RAG, story_context, begun, pending, restarted, storyVars>>

\* The collaborator returns the first message, or raises.
FinishGreeting(c) ==
    /\ calls[c].pc = "greet"
    /\ \E outcome \in {"ok", "raises"} :
         LET s == calls[c].session
             end == GreetingReturned(conversation_history[s], calls[c].message, outcome)
         IN  /\ lastStep' = Step("FinishGreeting", s, calls[c].message, outcome, <<>>,
                                 NoStoryContext, end.kind)
             /\ conversation_history' = [conversation_history EXCEPT ![s] = end.history]
             /\ calls' = [calls EXCEPT ![c] = NoCall]
    /\ UNCHANGED <<USE_RAG, story_context, begun, pending, restarted, storyVars>>

ClearHistory(s) ==
    /\ conversation_history[s].present
    /\ conversation_history' = clear_history(conversation_history, s)
    /\ pending' = [pending EXCEPT ![s] = {}]
    /\ lastStep' = Step("ClearHistory", s, 0, "none", <<>>, NoStoryContext, "none")
    /\ UNCHANGED <<USE_RAG, story_context, calls, begun, restarted, storyVars>>

\* The process is restarted: the calls in flight are gone, and every
\* dictionary is as the module and the constructor make it.
Restart ==
    /\ ~restarted
    /\ begun > 0
    /\ restarted' = TRUE
    /\ conversation_history' = [s \in Sessions |-> NoHistory]
    /\ story_context' = [s \in Sessions |-> NoStoryContext]
    /\ CHARACTER_DESCRIPTIONS' = [s \in StoreKeys |-> None]
    /\ calls' = [c \in Calls |-> NoCall]
    /\ pending' = [s \in Sessions |-> {}]
    /\ lastStep' = Step("Restart", 0, 0, "none", <<>>, NoStoryContext, "none")
    /\ UNCHANGED <<USE_RAG, begun, OpenAIService, lastReq, lastResp, lastServed,
                   lastClassified>>

ChatInit ==
    /\ OpenAIService = "class"
    /\ CHARACTER_DESCRIPTIONS = [s \in StoreKeys |-> None]
    /\ lastReq = NoRequest
    /\ lastResp = NoResponse
    /\ lastServed = NoneServed
    /\ lastClassified = NoneClassified
    /\ USE_RAG \in BOOLEAN
    /\ ChatStart

ChatNext ==
    \/ \E c \in Calls, s \in Sessions : GenerateResponse(c, s)
    \/ \E c \in Calls, s \in Sessions : GenerateFirstMessage(c, s)
    \/ \E c \in Calls : FinishRestore(c)
    \/ \E c \in Calls : FinishEmotion(c)
    \/ \E c \in Calls : FinishLoad(c)
    \/ \E c \in Calls : FinishReply(c)
    \/ \E c \in Calls : FinishGreeting(c)
    \/ \E s \in Sessions : ClearHistory(s)
    \/ Restart

ChatSpec == ChatInit /\ [][ChatNext]_vars

\* The last step was the return of _load_story_context_from_backend.
ContextLoaded == lastStep.op = "FinishLoad"

\* C22: after a restart of the process the next request of a session
\* recovers the ability totals, the prior choices and the character
\* descriptor of the session from the durable completion record; when the
\* read of the record fails the session is treated as fresh.
RestartRecoversSession ==
    [][(restarted' /\ ContextLoaded')
       => IF lastStep'.kind = "Record"
          THEN /\ story_context'[lastStep'.session].present
               /\ story_context'[lastStep'.session].abilities = lastStep'.story.abilities
               /\ story_context'[lastStep'.session].choices = lastStep'.story.choices
               /\ CHARACTER_DESCRIPTIONS'[lastStep'.story.story_id] # None
          ELSE story_context'[lastStep'.session] = story_context[lastStep'.session]]_vars

\* The totals of a story context are integers, none below 0.
TotalsNonNegative(context) ==
    /\ ~context.abilities.nulls
    /\ \A i \in DOMAIN context.abilities.totals : context.abilities.totals[i] >= 0

\* No total of the context after is below the one of the context before.
TotalsNotLower(before, after) ==
    \A i \in DOMAIN after.abilities.totals :
        after.abilities.totals[i] >= before.abilities.totals[i]

\* C24: for every session and after every operation, each of the five
\* ability totals held for the session is an integer not below 0 and not
\* below its value in any earlier state of the session.
AbilityTotalsNeverDecrease ==
    [][\A s \in Sessions :
         story_context'[s].present
         => /\ TotalsNonNegative(story_context'[s])
            /\ story_context[s].present
                 => TotalsNotLower(story_context[s], story_context'[s])]_vars

\* C25: a chat operation of one session (generate_response,
\* generate_first_message_from_story, clear_history) leaves the
\* conversation history and the story context of every other session
\* unchanged, under every interleaving.
OtherSessionsUnchanged ==
    [][\A s \in Sessions :
         (lastStep'.op # "Restart" /\ s # lastStep'.session)
         => /\ conversation_history'[s] = conversation_history[s]
            /\ story_context'[s] = story_context[s]]_vars

C25Witness ==
    /\ lastStep.op = "ClearHistory"
    /\ \E s \in Sessions :
         /\ s # lastStep.session
         /\ conversation_history[s].present
         /\ conversation_history[s].entries # <<>>
         /\ story_context[s].present

\* The last step was one of a call of generate_response.
ResponseStep ==
    \/ lastStep.op \in {"GenerateResponse", "FinishEmotion", "FinishLoad", "FinishReply"}
    \/ lastStep.op = "FinishRestore" /\ \E c \in Calls : calls[c].pc = "emotion"
                                                        /\ calls[c].message = lastStep.message

\* The analysis of the emotion failed in the last step.
EmotionFailed == lastStep.op = "FinishEmotion" /\ lastStep.kind = "fails"

\* The prompt was built in the last step, and building it raised.
PromptFailed ==
    /\ \/ lastStep.op \in {"FinishEmotion", "FinishLoad"}
       \/ lastStep.op = "GenerateResponse" /\ ~USE_RAG
    /\ FormatRaises(story_context[lastStep.session])

\* The memory or the reply of the collaborator raised in the last step.
ReplyFailed == lastStep.op = "FinishReply" /\ lastStep.kind = "raises"

\* The last step appended the message of the child of its call.
UserMessageAppended ==
    \/ lastStep.op = "FinishRestore"
    \/ lastStep.op = "GenerateResponse"
       /\ \A c \in Calls : calls[c].message = lastStep.message => calls[c].pc # "restore"

\* The steps of generate_response: the message of the child is appended
\* before the collaborator is called, the call never raises, a failure
\* returns the apology and leaves the history as it is, and a reply is
\* appended when it is returned.
ResponseStepsAsClaimed(failed) ==
    ResponseStep'
    => /\ lastStep'.returned \in {"none", "reply", "apology"}
       /\ UserMessageAppended'
            => LET h == conversation_history'[lastStep'.session]
               IN  /\ h.present
                   /\ h.entries # <<>>
                   /\ h.entries[Len(h.entries)] = Entry("user", lastStep'.message, "none")
                   /\ lastStep'.op = "GenerateResponse"
                        => h.entries = AppendUser(conversation_history[lastStep'.session].entries,
                                                  lastStep'.message)
                   /\ lastStep'.returned # "reply"
       /\ failed
            => /\ lastStep'.returned = "apology"
               /\ lastStep'.op # "GenerateResponse"
                    => conversation_history' = conversation_history
       /\ lastStep'.returned = "reply"
            => conversation_history'[lastStep'.session].entries =
                   Append(conversation_history[lastStep'.session].entries,
                          Entry("assistant", ReplyTo(lastStep'.message), "none"))

\* C28 as claimed: generate_response appends the user message before it
\* calls the collaborator; when emotion analysis, prompt building or the
\* reply call fails it returns the apology, never raises, and the history
\* keeps the user message with no assistant entry: 2 entries more on
\* success, 1 on failure.
FailuresReturnApologyAsClaimed ==
    [][ResponseStepsAsClaimed(EmotionFailed' \/ PromptFailed' \/ ReplyFailed')]_vars

\* C28: generate_response appends the user message before it calls the
\* collaborator; when prompt building or the reply call fails it returns
\* the apology, never raises, and the history keeps the user message with
\* no assistant entry: 2 entries more on success, 1 on failure.  A failure
\* of emotion analysis is absorbed: the call goes on with "neutral".
FailuresReturnApology ==
    [][ResponseStepsAsClaimed(PromptFailed' \/ ReplyFailed')]_vars

C28Witness ==
    /\ ReplyFailed
    /\ USE_RAG
    /\ lastStep.returned = "apology"
    /\ conversation_history[lastStep.session].present
    /\ LET e == conversation_history[lastStep.session].entries
       IN  e # <<>> /\ e[Len(e)] = Entry("user", lastStep.message, "none")

\* C29: every user message that generate_response appended stays in
\* conversation_history[session_id] until clear_history is called for the
\* session, under every interleaving of two calls of generate_response for
\* one session, also when both find the session absent and both restore.
AppendedMessagesStay ==
    \A s \in Sessions :
        \A m \in pending[s] :
            /\ conversation_history[s].present
            /\ \E i \in DOMAIN conversation_history[s].entries :
                   conversation_history[s].entries[i] = Entry("user", m, "none")

\* The stored messages that a restoration keeps: the USER and AI messages
\* among the last HISTORY_LIMIT.
KeptMessages(messages) ==
    { j \in DOMAIN messages :
        j > Len(messages) - HISTORY_LIMIT /\ messages[j].sender \in {"USER", "AI"} }

\* The entries are the kept messages of the record in their stored order,
\* and none when the read failed or the record is empty.
RestoredFrom(entries, kind, messages) ==
    IF kind # "Payload"
    THEN entries = <<>>
    ELSE /\ Len(entries) = Cardinality(KeptMessages(messages))
         /\ Len(entries) <= HISTORY_LIMIT
         /\ \A j \in KeptMessages(messages) :
                entries[Cardinality({k \in KeptMessages(messages) : k <= j})] =
                    Entry(IF messages[j].sender = "USER" THEN "user" ELSE "assistant",
                          messages[j].message, "none")

\* The entries of the session of the last step that its restoration stored:
\* all but the message of the child that generate_response appended.
RestoredEntries ==
    LET e == conversation_history[lastStep.session].entries
    IN  IF e # <<>> /\ e[Len(e)] = Entry("user", lastStep.message, "none")
        THEN SubSeq(e, 1, Len(e) - 1)
        ELSE e

\* C30: the restoration of the history runs only when the session is
\* absent from conversation_history and leaves it present: with at most the
\* 20 most recent stored messages in their stored order (USER as user, AI
\* as assistant, others dropped), with an empty list on a failure or an
\* empty record; after clear_history the next generate_response restores
\* the history again.
RestorationAsClaimed ==
    [][/\ \A c \in Calls :
            (calls'[c].pc = "restore" /\ calls[c].pc # "restore")
            => ~conversation_history[calls'[c].session].present
       /\ lastStep'.op = "FinishRestore"
            => /\ conversation_history'[lastStep'.session].present
               /\ RestoredFrom(RestoredEntries', lastStep'.kind, lastStep'.messages)
       /\ lastStep'.op = "ClearHistory"
            => ~conversation_history'[lastStep'.session].present
       /\ (lastStep'.op = "GenerateResponse" /\ USE_RAG
             /\ ~conversation_history[lastStep'.session].present)
            => \E c \in Calls : /\ calls'[c].pc = "restore"
                                /\ calls'[c].message = lastStep'.message]_vars

C30Witness ==
    /\ lastStep.op = "FinishRestore"
    /\ lastStep.messages = LongChat
    /\ restarted
    /\ Len(RestoredEntries) = 18
    /\ RestoredEntries[1] = Entry("user", 3, "none")

====
